---- MODULE Spec2Model ----
(***************************************************************************)
(* Texture discovery and extraction pipeline of gTexViewer.                *)
(*                                                                         *)
(* Files and archive entries are abstract byte blobs: a blob records its   *)
(* length and what the sniffing primitives can see in it (how many leading *)
(* bytes the image-type and image-size probes need, the 4-byte words the   *)
(* container magic checks read).  Sources, hints, the registry and the     *)
(* pipeline are translated from src/src/texture_pipeline.                  *)
(***************************************************************************)
EXTENDS Integers, Sequences, FiniteSets, TLC

\* ------------------------------------------------------------------ bounds
MaxEntries == 2      \* entries of the generated ZIP archive
MaxPaths == 1        \* input paths handed to one extraction call
MaxTex == 2          \* textures of the generated glTF document
MaxMat == 2          \* materials of the generated glTF document

\* ------------------------------------------------------- program constants
InitialHeaderSize == 128
HeaderGrowth == 1024
HeaderCap == 65536
ProbeWindow == 1024
GlbHeaderLen == 12
ChunkHeaderLen == 8

\* ------------------------------------------------------------ Option/Result
None == [some |-> FALSE]
Some(v) == [some |-> TRUE, val |-> v]
Ok(v) == [ok |-> TRUE, val |-> v]
Err(e) == [ok |-> FALSE, err |-> e]

Min(a, b) == IF a <= b THEN a ELSE b

\* A run of bytes: the first len bytes of blob.
Bytes(blob, len) == [blob |-> blob, len |-> len]

\* ------------------------------------------------------------------- blobs
\* An image: size bytes long; the type probe needs sig leading bytes, the
\* size probe needs `need` leading bytes (need > size: it never succeeds).
Img(fmt, size, sig, need, w, h) ==
    [kind |-> "img", fmt |-> fmt, size |-> size, sig |-> sig, need |-> need,
     w |-> w, h |-> h]

\* Bytes no probe recognises; w4 is the 4-byte word at offset 4.
Junk(size, w4) == [kind |-> "junk", size |-> size, w4 |-> w4]

\* A texture of a glTF document: an image held in a buffer view of the BIN
\* chunk (offset, image) or referenced by URI (uri = path of the file).
ViewTex(name, offset, image) ==
    [src |-> "view", name |-> name, offset |-> offset, image |-> image]
UriTex(name, uri) == [src |-> "uri", name |-> name, uri |-> uri]

\* A material: its name and, per slot, a texture index or -1.
Slots == <<"Base Color", "Metallic Roughness", "Normal", "Occlusion", "Emissive">>
NoTex == 0 - 1
Material(name, refs) == [name |-> name, refs |-> refs]

\* A glTF asset: a binary GLB container (binary, with the JSON chunk's length
\* field and a BIN chunk) or a JSON .gltf text; its textures and materials.
Glb(binary, size, jsonLen, textures, materials) ==
    [kind |-> "glb", binary |-> binary, size |-> size, jsonLen |-> jsonLen,
     textures |-> textures, materials |-> materials]

\* A ZIP archive: its entries in central-directory order.
ZipEntry(is_dir, readable, blob) ==
    [is_dir |-> is_dir, readable |-> readable, blob |-> blob]
Zip(entries) == [kind |-> "zip", size |-> 22 + 100 * Len(entries), entries |-> entries]

\* A binary FBX file: the Video/Texture nodes its node tree holds.
FbxTexture(name, content) == [name |-> name, content |-> content]
Fbx(textures) == [kind |-> "fbx", size |-> 1000, textures |-> textures]

\* The 4-byte word a reader positioned at pos reads from a blob.
WordAt(blob, pos) ==
    IF pos = 0
    THEN CASE blob.kind = "glb" -> IF blob.binary THEN "glTF" ELSE "other"
           [] blob.kind = "zip" -> IF blob.entries = <<>> THEN "PK56" ELSE "PK34"
           [] OTHER -> "other"
    ELSE IF pos = 4 /\ blob.kind = "junk" THEN blob.w4 ELSE "other"

\* ---------------------------------------------------------------- imagesize
\* imagesize::image_type / reader_type over the first n bytes of a blob.
image_type(blob, n) ==
    IF blob.kind = "img" /\ Min(n, blob.size) >= blob.sig
    THEN Ok(blob.fmt) ELSE Err("NotSupported")

\* imagesize::blob_size / reader_size over the first n bytes of a blob.
blob_size(blob, n) ==
    IF image_type(blob, n).ok /\ Min(n, blob.size) >= blob.need
    THEN Ok([width |-> blob.w, height |-> blob.h]) ELSE Err("NoSize")

\* ------------------------------------------------------------------- paths
Path(stem, ext) == [stem |-> stem, ext |-> ext]

\* str::to_lowercase on the extensions in use.
to_lowercase(ext) ==
    CASE ext = "GLB" -> "glb"
      [] ext = "FBX" -> "fbx"
      [] ext = "ZIP" -> "zip"
      [] OTHER -> ext

VARIABLES
    disk,              \* the file system: path -> blob
    call,              \* the Pipeline extraction entry point in use
    pc,                \* position of the extraction call
    paths,             \* the input paths handed over so far
    processing_queue,  \* extract_all_metadata_recursive: the work queue
    final_metadata,    \* the list the extraction returns
    lastExtract,       \* the last Source::extract_metadata call and its result
    lastLoad,          \* the last load_bytes call and its result
    glb,               \* GlbSource::extract_metadata, one material slot at a time
    par,               \* extract_all_metadata_parallel: the closures of a batch
    dec,               \* Pipeline::parse_image_data on one LoadedImageData
    loader,            \* AsyncImageLoader and the rayon tasks of its batches
    app,               \* GTexViewerApp: image_slots and the loading flags
    fbx,               \* UltraFastFbxParser::extract_textures on one file
    md,                \* GTexViewerApp: the metadata threads and their channels
    probe              \* find_source_for_reader: the shared reader, Source by Source

pipelineVars == <<call, pc, paths, processing_queue, final_metadata, lastExtract,
                  lastLoad>>
subVars == <<par, dec, loader, app, fbx, md, probe>>
vars == <<disk, pipelineVars, glb, subVars>>

\* ------------------------------------------------------- the files at hand
PngBig == Img("Png", 5000, 8, 24, 64, 64)
PngTiny == Img("Png", 67, 8, 24, 1, 1)
\* A JPEG whose type is recognised and whose size marker is never found.
JpegNoSize == Img("Jpeg", 300, 3, 301, 0, 0)
\* A JPEG whose size marker lies behind 700 bytes of metadata segments.
JpegLate == Img("Jpeg", 5000, 3, 700, 32, 32)
JunkBlob == Junk(300, "other")
EmptyBlob == Junk(0, "other")

\* The length of the BIN chunk that holds the view textures.
RECURSIVE BinLen(_, _)
BinLen(textures, i) ==
    IF i > Len(textures) THEN 0
    ELSE LET rest == BinLen(textures, i + 1)
             end == IF textures[i].src = "view"
                    THEN textures[i].offset + textures[i].image.size ELSE 0
         IN  IF end > rest THEN end ELSE rest

GlbFile(jsonLen, textures, materials) ==
    Glb(TRUE,
        GlbHeaderLen + ChunkHeaderLen + jsonLen + ChunkHeaderLen + BinLen(textures, 1),
        jsonLen, textures, materials)

\* A GLB with two embedded PNG textures: tex0 is the base colour and the
\* emissive map of a material, tex1 is referenced by no material.
NestedGlb ==
    GlbFile(16, <<ViewTex("tex0", 0, PngBig), ViewTex("tex1", 5000, PngTiny)>>,
            <<Material("mat", <<0, NoTex, NoTex, NoTex, 0>>)>>)

PackZip == Path("pack", "zip")
PhotoPng == Path("photo", "png")
FakeFbx == Path("fake", "fbx")
AnimFbx == Path("anim", "fbx")
CleanFbx == Path("clean", "fbx")
BareFbx == Path("bare", "fbx")
ModelGlb == Path("model", "glb")
UpperGlb == Path("MODEL", "GLB")
SceneGltf == Path("scene", "gltf")
EmptyGlb == Path("empty", "glb")
GoneFbx == Path("gone", "fbx")             \* no such file
NotesTxt == Path("notes", "txt")           \* no image, no container

\* The paths an extraction call may be given.
InputPaths == {PackZip, PhotoPng, FakeFbx, AnimFbx, CleanFbx, BareFbx,
               ModelGlb, SceneGltf, EmptyGlb, GoneFbx}
AllPaths == InputPaths \cup {UpperGlb, NotesTxt}

EntryKinds ==
    {ZipEntry(TRUE, TRUE, EmptyBlob),      \* a directory
     ZipEntry(FALSE, TRUE, EmptyBlob),     \* a zero-size file
     ZipEntry(FALSE, FALSE, PngBig),       \* an entry by_index fails on
     ZipEntry(FALSE, TRUE, PngTiny),
     ZipEntry(FALSE, TRUE, PngBig),
     ZipEntry(FALSE, TRUE, JpegNoSize),
     ZipEntry(FALSE, TRUE, JpegLate),
     ZipEntry(FALSE, TRUE, JunkBlob),
     ZipEntry(FALSE, TRUE, NestedGlb)}

ZipArchives == UNION {[1..n -> EntryKinds] : n \in 0..MaxEntries}

ModelDoc ==
    GlbFile(16,
            <<ViewTex("tex0", 0, PngBig), ViewTex("tex1", 5000, PngBig),
              ViewTex("bad", 10000, JunkBlob)>>,
            <<Material("mat", <<0, 0, NoTex, NoTex, 2>>)>>)

\* The file system in which pack.zip holds the given entries.
DiskWith(entries) ==
    [p \in AllPaths |->
        CASE p = PackZip -> Zip(entries)
          [] p = PhotoPng -> PngBig
          [] p = FakeFbx -> PngBig
          [] p = AnimFbx ->
               Fbx(<<FbxTexture("skin", Some(PngBig)),
                     FbxTexture("noise", Some(JunkBlob))>>)
          [] p = CleanFbx ->
               Fbx(<<FbxTexture("skin", Some(PngBig)),
                     FbxTexture("skin", Some(PngTiny)),
                     FbxTexture("ref", None)>>)
          [] p = BareFbx -> Fbx(<<FbxTexture("ref", None)>>)
          [] p = ModelGlb -> ModelDoc
          [] p = UpperGlb -> ModelDoc
          [] p = SceneGltf ->
               Glb(FALSE, 400, 0,
                   <<UriTex("ext0", PhotoPng), UriTex("ext1", FakeFbx)>>,
                   <<Material("mat", <<0, 1, NoTex, NoTex, NoTex>>)>>)
          [] p = EmptyGlb -> GlbFile(16, <<>>, <<>>)
          [] p = GoneFbx -> [kind |-> "missing", size |-> 0]
          [] p = NotesTxt -> JunkBlob]

\* ------------------------------------------------------------------- hints
FileHint(path) == [type |-> "FileHint", path |-> path]

GlbHint(container_path, buffer_index, absolute_file_offset, length, relative_buffer_offset, texture_data) ==
    [type |-> "GlbHint", container_path |-> container_path,
     buffer_index |-> buffer_index,
     absolute_file_offset |-> absolute_file_offset, length |-> length,
     relative_buffer_offset |-> relative_buffer_offset,
     texture_data |-> texture_data]

FbxHint(container_path, texture_name, texture_index, texture_data) ==
    [type |-> "FbxHint", container_path |-> container_path,
     texture_name |-> texture_name, texture_index |-> texture_index,
     texture_data |-> texture_data]

ZipHint(container_path, entry_name, entry_index, compressed_size, uncompressed_size, hdr) ==
    [type |-> "ZipHint", container_path |-> container_path,
     entry_name |-> entry_name, entry_index |-> entry_index,
     compressed_size |-> compressed_size,
     uncompressed_size |-> uncompressed_size, header_bytes |-> hdr]

header_bytes_WithTextureData(hint) ==
    IF hint.type = "ZipHint" THEN hint.header_bytes
    ELSE IF hint.type = "GlbHint" THEN hint.texture_data ELSE None

\* EmbeddedHint::header_bytes: only ZipHint overrides the default None.
header_bytes(hint) ==
    IF hint.type = "ZipHint" THEN hint.header_bytes ELSE None

EmbeddedMetadata(name, format, width, height, file_size, hint, source_path) ==
    [name |-> name, format |-> format, width |-> width, height |-> height,
     file_size |-> file_size, embedded_hint |-> hint,
     source_path |-> source_path]

\* ------------------------------------------------------------- file access
\* std::fs::read: the whole file, or an I/O error.
fs_read(path) ==
    IF disk[path].kind = "missing" THEN Err("Io")
    ELSE Ok(Bytes(disk[path], disk[path].size))

\* A byte range of a file, as read by seek + read_exact.
Slice(blob, offset, length) == [blob |-> blob, from |-> offset, len |-> length]

\* ------------------------------------------------------------- ImageSource
ImageSource_can_load_path(path) ==
    IF disk[path].kind = "missing" THEN Err("Io")
    ELSE Ok(image_type(disk[path], disk[path].size).ok)

ImageSource_extract_metadata(path) ==
    LET blob == disk[path]
        format == image_type(blob, blob.size)
        dimension == blob_size(blob, blob.size)
    IN  IF blob.kind = "missing" THEN Err("Io")
        ELSE IF ~format.ok THEN Err("NotSupported")
        ELSE IF ~dimension.ok THEN Err("NoSize")
        ELSE IF dimension.val.width = 0 \/ dimension.val.height = 0
             THEN Err("InvalidDimensions")
        ELSE Ok(<<EmbeddedMetadata(path.stem, format.val, dimension.val.width,
                                   dimension.val.height, blob.size,
                                   FileHint(path), path)>>)

\* ImageSource::load_bytes without the downcast check: any hint is read as
\* the file it names.
ImageSource_load_bytes_AnyHint(hint) ==
    IF hint.type = "FileHint" THEN fs_read(hint.path)
    ELSE fs_read(hint.container_path)

ImageSource_load_bytes(hint) ==
    IF hint.type = "FileHint" THEN fs_read(hint.path)
    ELSE Err("TypeMismatch")

\* --------------------------------------------------------------- ZipSource
\* ZipArchive::new on a file: the central directory parses or it does not.
ZipArchive_new(path) ==
    IF disk[path].kind = "missing" THEN Err("Io")
    ELSE IF disk[path].kind = "zip" THEN Ok(disk[path].entries)
    ELSE Err("InvalidArchive")

ZipSource_can_load_path(path) ==
    IF to_lowercase(path.ext) # "zip" THEN Ok(FALSE)
    ELSE IF disk[path].kind = "missing" THEN Err("Io")
    ELSE Ok(ZipArchive_new(path).ok)

\* The while loop of read_header_incrementally: header_size is the window,
\* acc the number of bytes accumulated so far; the result is the number of
\* bytes returned.  entry.read delivers the bytes asked for, up to the end.
RECURSIVE header_loop(_, _, _, _)
header_loop(blob, max_size, header_size, acc) ==
    LET max_header_size == Min(HeaderCap, max_size)
        bytes_to_read == IF header_size > acc THEN header_size - acc ELSE 0
        bytes_read == Min(bytes_to_read, blob.size - acc)
        acc2 == acc + bytes_read
    IN  IF ~(header_size <= max_header_size) THEN acc
        ELSE IF bytes_to_read = 0 THEN acc
        ELSE IF bytes_read = 0 THEN acc
        ELSE IF blob_size(blob, acc2).ok THEN acc2
        ELSE IF acc2 >= max_size THEN acc2
        ELSE header_loop(blob, max_size,
                         Min(header_size + HeaderGrowth, max_header_size), acc2)

read_header_incrementally(blob, max_size) ==
    Ok(Some(Bytes(blob, header_loop(blob, max_size, InitialHeaderSize, 0))))

entry_name(i) == "entry" \o ToString(i)

\* The closure run for entry i (0-based) of extract_metadata.
ZipSource_entry(path, entries, i) ==
    LET entry == entries[i + 1]
        uncompressed_size == entry.blob.size
        hdr == IF uncompressed_size > 0
               THEN read_header_incrementally(entry.blob, uncompressed_size)
               ELSE Ok(None)
    IN  IF ~entry.readable THEN Err("by_index")
        ELSE IF entry.is_dir THEN Ok(None)
        ELSE IF ~hdr.ok THEN Err("read")
        ELSE IF uncompressed_size = 0 THEN Ok(None)
        ELSE Ok(Some(EmbeddedMetadata(
                 entry_name(i), "Png", 0, 0, uncompressed_size,
                 ZipHint(path, entry_name(i), i, uncompressed_size,
                         uncompressed_size, hdr.val),
                 path)))

RECURSIVE ZipSource_entries(_, _, _)
ZipSource_entries(path, entries, i) ==
    IF i >= Len(entries) THEN <<>>
    ELSE LET r == ZipSource_entry(path, entries, i)
         IN  (IF r.ok /\ r.val.some THEN <<r.val.val>> ELSE <<>>)
             \o ZipSource_entries(path, entries, i + 1)

ZipSource_extract_metadata(path) ==
    LET archive == ZipArchive_new(path)
        metadata_list == ZipSource_entries(path, archive.val, 0)
    IN  IF ~archive.ok THEN Err(archive.err)
        ELSE IF metadata_list = <<>> THEN Err("No entries found in ZIP archive")
        ELSE Ok(metadata_list)

read_zip_entry(hint) ==
    LET archive == ZipArchive_new(hint.container_path)
        entry == archive.val[hint.entry_index + 1]
    IN  IF ~archive.ok THEN Err(archive.err)
        ELSE IF hint.entry_index >= Len(archive.val) \/ ~entry.readable
             THEN Err("by_index")
        ELSE IF entry_name(hint.entry_index) # hint.entry_name
             THEN Err("name mismatch")
        ELSE Ok(Bytes(entry.blob, entry.blob.size))

ZipSource_load_bytes(hint) ==
    IF hint.type = "ZipHint" THEN read_zip_entry(hint)
    ELSE Err("TypeMismatch")

ZipSource_extract_metadata_from_reader(bytes, name, parent_path) == Ok(<<>>)

\* --------------------------------------------------------------- FbxSource
FbxSource_can_load_path(path) == Ok(to_lowercase(path.ext) = "fbx")

\* UltraFastFbxParser::new + extract_textures: the Video/Texture nodes of
\* the file, or an error when the file cannot be opened or has no FBX magic.
extract_textures(path) ==
    IF disk[path].kind = "missing" THEN Err("Io")
    ELSE IF disk[path].kind = "fbx" THEN Ok(disk[path].textures)
    ELSE Err("Invalid FBX file: magic header mismatch")

convert_texture_to_metadata(texture_data, texture_index, base_path) ==
    LET content == texture_data.content.val
        format == image_type(content, content.size)
        dimension == blob_size(content, content.size)
    IN  IF ~texture_data.content.some THEN Err("FBX texture has no content")
        ELSE IF ~format.ok THEN Err("NotSupported")
        ELSE IF ~dimension.ok THEN Err("NoSize")
        ELSE IF dimension.val.width = 0 \/ dimension.val.height = 0
             THEN Err("InvalidDimensions")
        ELSE Ok(EmbeddedMetadata(
                 texture_data.name, format.val, dimension.val.width,
                 dimension.val.height, content.size,
                 FbxHint(base_path, texture_data.name, texture_index,
                         Bytes(content, content.size)),
                 base_path))

\* ensure_unique_names: count[name] repeats seen so far, keyed by the name the
\* record had on entry.
RECURSIVE ensure_unique_names_from(_, _, _)
ensure_unique_names_from(results, i, name_counters) ==
    IF i > Len(results) THEN results
    ELSE LET name == results[i].name
         IN  IF name \in DOMAIN name_counters
             THEN LET count == name_counters[name] + 1
                  IN  ensure_unique_names_from(
                          [results EXCEPT ![i].name =
                               name \o "_" \o ToString(count)],
                          i + 1, [name_counters EXCEPT ![name] = count])
             ELSE ensure_unique_names_from(
                      results, i + 1,
                      [n \in DOMAIN name_counters \cup {name} |->
                          IF n = name THEN 0 ELSE name_counters[n]])

ensure_unique_names_SameSuffix(results) ==
    [i \in DOMAIN results |->
        IF \E j \in 1..(i - 1) : results[j].name = results[i].name
        THEN [results[i] EXCEPT !.name = results[i].name \o "_1"]
        ELSE results[i]]

ensure_unique_names(results) ==
    ensure_unique_names_from(results, 1, [n \in {} |-> 0])

\* The filter_map + collect of extract_metadata from texture i (1-based) on:
\* the converted textures that have content, or the error of one of them.
RECURSIVE FbxSource_collect(_, _, _)
FbxSource_collect(textures, i, base_path) ==
    IF i > Len(textures) THEN Ok(<<>>)
    ELSE LET rest == FbxSource_collect(textures, i + 1, base_path)
             one == convert_texture_to_metadata(textures[i], i - 1, base_path)
         IN  IF ~textures[i].content.some THEN rest
             ELSE IF ~one.ok THEN one
             ELSE IF ~rest.ok THEN rest
             ELSE Ok(<<one.val>> \o rest.val)

FbxSource_extract_metadata(path) ==
    LET textures == extract_textures(path)
        results == FbxSource_collect(textures.val, 1, path)
    IN  IF ~textures.ok THEN Err(textures.err)
        ELSE IF ~results.ok THEN Err(results.err)
        ELSE Ok(ensure_unique_names(results.val))

FbxSource_load_bytes(hint) ==
    IF hint.type = "FbxHint" THEN Ok(hint.texture_data)
    ELSE Err("TypeMismatch")

FbxSource_extract_metadata_from_reader(bytes, name, parent_path) == Ok(<<>>)

\* --------------------------------------------------------------- GlbSource
GlbSource_can_load_path(path) ==
    IF to_lowercase(path.ext) \notin {"glb", "gltf"} THEN Ok(FALSE)
    ELSE IF path.ext = "glb"
         THEN IF disk[path].kind = "missing" \/ disk[path].size < 4
              THEN Err("Io")
              ELSE Ok(WordAt(disk[path], 0) = "glTF")
    ELSE Ok(TRUE)

\* (json_length + 3) & !3
Pad4(n) == ((n + 3) \div 4) * 4

\* Where the BIN chunk's data starts in a conforming GLB file.
BinStart(blob) == GlbHeaderLen + ChunkHeaderLen + blob.jsonLen + ChunkHeaderLen

\* glb_blob_offset as extract_metadata computes it.
glb_blob_offset(path) ==
    IF path.ext = "glb"
    THEN GlbHeaderLen + ChunkHeaderLen + Pad4(disk[path].jsonLen) + ChunkHeaderLen
    ELSE 0

extract_texture_metadata_from_texture(texture, texture_type, base_path, offset) ==
    IF texture.src = "view"
    THEN LET image == texture.image
             n == Min(image.size, ProbeWindow)
             format == image_type(image, n)
             dimension == blob_size(image, n)
         IN  IF ~format.ok THEN Err("NotSupported")
             ELSE IF ~dimension.ok THEN Err("NoSize")
             ELSE IF dimension.val.width = 0 \/ dimension.val.height = 0
                  THEN Err("InvalidDimensions")
             ELSE Ok(EmbeddedMetadata(
                      texture_type, format.val, dimension.val.width,
                      dimension.val.height, image.size,
                      GlbHint(base_path, 0, offset + texture.offset, image.size,
                              texture.offset, None),
                      base_path))
    ELSE LET image_path == texture.uri
             image == disk[image_path]
             format == image_type(image, image.size)
             dimension == blob_size(image, image.size)
         IN  IF image.kind = "missing" THEN Err("Io")
             ELSE IF ~format.ok THEN Err("NotSupported")
             ELSE IF ~dimension.ok THEN Err("NoSize")
             ELSE IF dimension.val.width = 0 \/ dimension.val.height = 0
                  THEN Err("InvalidDimensions")
             ELSE Ok(EmbeddedMetadata(
                      texture_type, format.val, dimension.val.width,
                      dimension.val.height, image.size,
                      FileHint(image_path), image_path))

extract_texture_metadata_from_reader(texture, texture_type, parent_path, container_name) ==
    IF texture.src = "view"
    THEN LET image == texture.image
             n == Min(image.size, ProbeWindow)
             format == image_type(image, n)
             dimension == blob_size(image, n)
         IN  IF ~format.ok THEN Err("NotSupported")
             ELSE IF ~dimension.ok THEN Err("NoSize")
             ELSE IF dimension.val.width = 0 \/ dimension.val.height = 0
                  THEN Err("InvalidDimensions")
             ELSE Ok(EmbeddedMetadata(
                      container_name \o " - " \o texture_type, format.val,
                      dimension.val.width, dimension.val.height, image.size,
                      GlbHint(parent_path, 0, 0, image.size, texture.offset,
                              Some(Bytes(image, image.size))),
                      parent_path))
    ELSE Err("External URI textures not supported")

\* The slot block without the look-up in processed_texture_indices.
glb_slot_NoDedup(acc, texture_index, metadata) ==
    IF texture_index # NoTex /\ metadata.ok
    THEN [processed |-> acc.processed \cup {texture_index},
          material_textures |-> Append(acc.material_textures, metadata.val)]
    ELSE acc

\* One `if let Some(texture_info) = material.<slot>()` block: acc holds
\* processed_texture_indices and material_textures; texture_index is NoTex
\* when the material has no texture in the slot; metadata is the result of
\* extracting the texture.
glb_slot(acc, texture_index, metadata) ==
    IF texture_index # NoTex /\ texture_index \notin acc.processed /\ metadata.ok
    THEN [processed |-> acc.processed \cup {texture_index},
          material_textures |-> Append(acc.material_textures, metadata.val)]
    ELSE acc

slot_label(material_name, s) == material_name \o " - " \o Slots[s]

\* The material loop of extract_metadata from slot position k on
\* (position k is slot k % 5 of material k \div 5).
RECURSIVE GlbSource_materials(_, _, _, _, _)
GlbSource_materials(acc, doc, k, path, offset) ==
    IF k >= Len(Slots) * Len(doc.materials) THEN acc
    ELSE LET material == doc.materials[(k \div Len(Slots)) + 1]
             s == (k % Len(Slots)) + 1
             texture_index == material.refs[s]
             metadata == IF texture_index = NoTex THEN Err("none")
                         ELSE extract_texture_metadata_from_texture(
                                  doc.textures[texture_index + 1],
                                  slot_label(material.name, s), path, offset)
         IN  GlbSource_materials(glb_slot(acc, texture_index, metadata),
                                 doc, k + 1, path, offset)

\* The loop over document.textures() from texture i (0-based) on.
RECURSIVE GlbSource_standalone(_, _, _, _, _)
GlbSource_standalone(processed, textures, i, path, offset) ==
    IF i >= Len(textures) THEN <<>>
    ELSE LET metadata == extract_texture_metadata_from_texture(
                             textures[i + 1],
                             "Standalone - " \o textures[i + 1].name, path, offset)
         IN  (IF i \notin processed /\ metadata.ok THEN <<metadata.val>> ELSE <<>>)
             \o GlbSource_standalone(processed, textures, i + 1, path, offset)

\* The end of extract_metadata: material textures, then standalone ones.
GlbSource_finish(acc, textures, path, offset) ==
    LET results == acc.material_textures
                   \o GlbSource_standalone(acc.processed, textures, 0, path, offset)
    IN  IF results = <<>> THEN Err("No valid textures found in GLB/GLTF file")
        ELSE Ok(results)

NoTextures == [processed |-> {}, material_textures |-> <<>>]

GlbSource_extract_metadata(path) ==
    LET doc == disk[path]
        offset == glb_blob_offset(path)
    IN  IF doc.kind = "missing" THEN Err("Io")
        ELSE IF doc.kind # "glb" THEN Err("Failed to parse GLB/GLTF file")
        ELSE GlbSource_finish(
                 GlbSource_materials(NoTextures, doc, 0, path, offset),
                 doc.textures, path, offset)

\* The material loop of extract_metadata_from_reader from position k on.
RECURSIVE GlbSource_reader_materials(_, _, _, _, _)
GlbSource_reader_materials(acc, doc, k, parent_path, name) ==
    IF k >= Len(Slots) * Len(doc.materials) THEN acc
    ELSE LET material == doc.materials[(k \div Len(Slots)) + 1]
             s == (k % Len(Slots)) + 1
             texture_index == material.refs[s]
             metadata == IF texture_index = NoTex THEN Err("none")
                         ELSE extract_texture_metadata_from_reader(
                                  doc.textures[texture_index + 1],
                                  slot_label(material.name, s), parent_path, name)
         IN  GlbSource_reader_materials(glb_slot(acc, texture_index, metadata),
                                        doc, k + 1, parent_path, name)

\* The end of extract_metadata_from_reader: the material textures alone.
GlbSource_reader_finish(acc) ==
    IF acc.material_textures = <<>>
    THEN Err("No valid textures found in GLB data from reader")
    ELSE Ok(acc.material_textures)

GlbSource_extract_metadata_from_reader(bytes, name, parent_path) ==
    LET doc == bytes.blob
        acc == GlbSource_reader_materials(NoTextures, doc, 0, parent_path, name)
    IN  IF doc.kind # "glb" \/ bytes.len < doc.size
        THEN Err("Failed to parse GLB/GLTF from reader")
        ELSE IF ~doc.binary THEN Err("GLB data from reader has no blob data")
        ELSE GlbSource_reader_finish(acc)

read_direct_file_slice(glb_path, absolute_offset, length) ==
    IF disk[glb_path].kind = "missing" THEN Err("Io")
    ELSE IF absolute_offset + length > disk[glb_path].size THEN Err("Io")
    ELSE Ok(Slice(disk[glb_path], absolute_offset, length))

GlbSource_load_bytes(hint) ==
    IF hint.type = "GlbHint"
    THEN IF hint.texture_data.some THEN Ok(hint.texture_data.val)
         ELSE read_direct_file_slice(hint.container_path,
                                     hint.absolute_file_offset, hint.length)
    ELSE IF hint.type = "FileHint" THEN fs_read(hint.path)
    ELSE Err("TypeMismatch")

\* ------------------------------------------------- ImageSource, from a reader
ImageSource_extract_metadata_from_reader(bytes, name, parent_path) ==
    LET format == image_type(bytes.blob, bytes.len)
        dimension == blob_size(bytes.blob, bytes.len)
    IN  IF ~format.ok THEN Err("NotSupported")
        ELSE IF ~dimension.ok THEN Err("NoSize")
        ELSE IF dimension.val.width = 0 \/ dimension.val.height = 0
             THEN Err("InvalidDimensions")
        ELSE Ok(<<EmbeddedMetadata(name, format.val, dimension.val.width,
                                   dimension.val.height, 0,
                                   FileHint(parent_path), parent_path)>>)

\* ---------------------------------------------------------- SourceRegistry
\* Pipeline::new registers the Sources in this order.
Sources == <<"Glb", "Fbx", "Zip", "Image">>

can_load_path(source, path) ==
    CASE source = "Glb" -> GlbSource_can_load_path(path)
      [] source = "Fbx" -> FbxSource_can_load_path(path)
      [] source = "Zip" -> ZipSource_can_load_path(path)
      [] source = "Image" -> ImageSource_can_load_path(path)

extract_metadata(source, path) ==
    CASE source = "Glb" -> GlbSource_extract_metadata(path)
      [] source = "Fbx" -> FbxSource_extract_metadata(path)
      [] source = "Zip" -> ZipSource_extract_metadata(path)
      [] source = "Image" -> ImageSource_extract_metadata(path)

extract_metadata_from_reader(source, bytes, name, parent_path) ==
    CASE source = "Glb" -> GlbSource_extract_metadata_from_reader(bytes, name, parent_path)
      [] source = "Fbx" -> FbxSource_extract_metadata_from_reader(bytes, name, parent_path)
      [] source = "Zip" -> ZipSource_extract_metadata_from_reader(bytes, name, parent_path)
      [] source = "Image" -> ImageSource_extract_metadata_from_reader(bytes, name, parent_path)

load_bytes(source, hint) ==
    CASE source = "Glb" -> GlbSource_load_bytes(hint)
      [] source = "Fbx" -> FbxSource_load_bytes(hint)
      [] source = "Zip" -> ZipSource_load_bytes(hint)
      [] source = "Image" -> ImageSource_load_bytes(hint)

\* can_load_reader on a reader over `bytes` positioned at pos: the answer
\* and the position the reader is left at.
can_load_reader(source, bytes, pos) ==
    CASE source = "Glb" ->
           IF bytes.len - pos >= 4
           THEN [res |-> Ok(WordAt(bytes.blob, pos) = "glTF"), pos |-> pos + 4]
           ELSE [res |-> Err("Io"), pos |-> bytes.len]
      [] source = "Fbx" -> [res |-> Ok(FALSE), pos |-> pos]
      [] source = "Zip" ->
           IF bytes.len - pos >= 4
           THEN [res |-> Ok(WordAt(bytes.blob, pos) \in {"PK34", "PK56"}), pos |-> 0]
           ELSE [res |-> Err("Io"), pos |-> bytes.len]
      [] source = "Image" ->
           [res |-> Ok(pos = 0 /\ image_type(bytes.blob, bytes.len).ok),
            pos |-> bytes.len]

\* Result<bool>::unwrap_or(false)
unwrap_or_false(r) == r.ok /\ r.val

\* The Sources that accept a path.
acceptors(path) ==
    {i \in DOMAIN Sources : unwrap_or_false(can_load_path(Sources[i], path))}

\* find_source: the first acceptor in registration order.
find_source(path) ==
    IF acceptors(path) = {} THEN None
    ELSE Some(Sources[CHOOSE i \in acceptors(path) :
                          \A j \in acceptors(path) : i <= j])

\* find_source_for_reader from Source i on, the shared reader being at pos.
RECURSIVE find_source_for_reader_from(_, _, _)
find_source_for_reader_from(bytes, i, pos) ==
    IF i > Len(Sources) THEN None
    ELSE LET r == can_load_reader(Sources[i], bytes, pos)
         IN  IF unwrap_or_false(r.res) THEN Some(Sources[i])
             ELSE find_source_for_reader_from(bytes, i + 1, r.pos)

find_source_for_reader(bytes) == find_source_for_reader_from(bytes, 1, 0)

\* ---------------------------------------------------------------- Pipeline
\* The containers a load_bytes call on `source` opens and parses again.
parsed_by_load(source, hint) ==
    IF source = "Zip" /\ hint.type = "ZipHint"
       /\ disk[hint.container_path].kind # "missing"
    THEN {hint.container_path} ELSE {}

\* The record of a load_bytes call: who called, the Source it went through,
\* the Source whose extraction produced the hint, the hint, the result and
\* the containers the call opened and parsed.
Load(via, source, producer, hint, result) ==
    [via |-> via, source |-> source, producer |-> producer, hint |-> hint,
     result |-> result,
     parsed |-> IF source \in {"hint", "none"} THEN {}
                ELSE parsed_by_load(source, hint)]

\* One iteration of the while loop of extract_all_metadata_recursive on the
\* record popped from the queue: the records pushed to the back of the
\* queue, the records emitted, the reader-based extraction made (if any)
\* and the load_bytes call made (if any).
Nothing == [queued |-> <<>>, emitted |-> <<>>, extraction |-> None, load |-> None]

expand(meta) ==
    LET hdr == header_bytes(meta.embedded_hint)
        header == hdr.val
        detected_format == image_type(header.blob, header.len)
        size == blob_size(header.blob, header.len)
        updated_meta ==
            IF size.ok
            THEN [meta EXCEPT !.format = detected_format.val,
                              !.width = size.val.width,
                              !.height = size.val.height]
            ELSE [meta EXCEPT !.format = detected_format.val]
        container_source == find_source_for_reader(header)
        parent_source == find_source(meta.source_path)
        container_data == load_bytes(parent_source.val, meta.embedded_hint)
        expanded_metadata ==
            extract_metadata_from_reader(container_source.val, container_data.val,
                                         meta.name, meta.source_path)
    IN  IF ~hdr.some THEN [Nothing EXCEPT !.emitted = <<meta>>]
        ELSE IF detected_format.ok THEN [Nothing EXCEPT !.emitted = <<updated_meta>>]
        ELSE IF ~container_source.some THEN Nothing
        ELSE IF ~parent_source.some THEN Nothing
        ELSE IF ~container_data.ok
             THEN [Nothing EXCEPT
                     !.load = Some(Load("expand", parent_source.val, "pipeline",
                                        meta.embedded_hint, container_data))]
        ELSE [queued |-> IF expanded_metadata.ok THEN expanded_metadata.val ELSE <<>>,
              emitted |-> <<>>,
              extraction |-> Some([via |-> "reader", source |-> container_source.val,
                                   path |-> meta.source_path,
                                   result |-> expanded_metadata]),
              load |-> Some(Load("expand", parent_source.val, "pipeline",
                                 meta.embedded_hint, container_data))]

\* Pipeline::load_bytes: the Source it went through ("hint" when the bytes
\* came out of the hint itself, "none" when no Source accepts the path) and
\* the result.
Pipeline_load_bytes(metadata) ==
    LET hint == metadata.embedded_hint
        source == find_source(metadata.source_path)
    IN  IF hint.type = "GlbHint" /\ hint.texture_data.some
        THEN [source |-> "hint", result |-> Ok(hint.texture_data.val)]
        ELSE IF hint.type = "FbxHint"
        THEN [source |-> "hint", result |-> Ok(hint.texture_data)]
        ELSE IF source.some
        THEN [source |-> source.val, result |-> load_bytes(source.val, hint)]
        ELSE [source |-> "none", result |-> Err("No source found")]

\* ------------------------------------------------------------------ actions
NoCall == [via |-> "none"]
GlbIdle == [pc |-> "idle"]

\* No extraction call has been made on the Pipeline.
PipelineIdle ==
    /\ call = "none"
    /\ pc = "start"
    /\ paths = <<>>
    /\ processing_queue = <<>>
    /\ final_metadata = <<>>
    /\ lastExtract = NoCall
    /\ lastLoad = NoCall

MdIdle == md = [pc |-> "idle"] /\ probe = [pc |-> "idle"]
LoaderIdle == loader = [pc |-> "idle"] /\ app = [pc |-> "idle"] /\ MdIdle
FbxIdle == fbx = [pc |-> "idle"]

SubIdle == par = [pc |-> "idle"] /\ dec = [pc |-> "idle"] /\ LoaderIdle /\ FbxIdle

Init ==
    /\ disk \in {DiskWith(entries) : entries \in ZipArchives}
    /\ call = "none"
    /\ pc = "start"
    /\ paths = <<>>
    /\ processing_queue = <<>>
    /\ final_metadata = <<>>
    /\ lastExtract = NoCall
    /\ lastLoad = NoCall
    /\ glb = GlbIdle
    /\ SubIdle

\* The record of a path-based extraction call.
Extraction(source, path) ==
    [via |-> "path", source |-> source, path |-> path,
     result |-> extract_metadata(source, path)]

Records(result) == IF result.ok THEN result.val ELSE <<>>

\* extract_all_metadata_recursive, the body of `for path in paths`.
SeedPath(path) ==
    /\ pc \in {"start", "seed"}
    /\ Len(paths) < MaxPaths
    /\ call' = "recursive"
    /\ pc' = "seed"
    /\ paths' = Append(paths, path)
    /\ LET source == find_source(path)
       IN  IF source.some
           THEN /\ lastExtract' = Extraction(source.val, path)
                /\ processing_queue' =
                       processing_queue \o Records(extract_metadata(source.val, path))
           ELSE UNCHANGED <<lastExtract, processing_queue>>
    /\ UNCHANGED <<disk, final_metadata, lastLoad, glb, subVars>>

\* extract_all_metadata_recursive, one iteration of `while let Some(meta)`.
LoopStep ==
    /\ pc \in {"seed", "loop"}
    /\ processing_queue # <<>>
    /\ pc' = "loop"
    /\ LET step == expand(Head(processing_queue))
       IN  /\ processing_queue' = Tail(processing_queue) \o step.queued
           /\ final_metadata' = final_metadata \o step.emitted
           /\ lastExtract' = IF step.extraction.some THEN step.extraction.val
                             ELSE lastExtract
           /\ lastLoad' = IF step.load.some THEN step.load.val ELSE lastLoad
    /\ UNCHANGED <<disk, call, paths, glb, subVars>>

\* extract_all_metadata_recursive returns final_metadata once the queue is empty.
LoopReturn ==
    /\ pc \in {"start", "seed", "loop"}
    /\ processing_queue = <<>>
    /\ call' = "recursive"
    /\ pc' = "done"
    /\ UNCHANGED <<disk, paths, processing_queue, final_metadata, lastExtract,
                   lastLoad, glb, subVars>>

\* Pipeline::extract_metadata on one path.
SinglePath(path) ==
    /\ pc = "start"
    /\ call' = "single"
    /\ pc' = "done"
    /\ paths' = <<path>>
    /\ LET source == find_source(path)
       IN  IF source.some
           THEN /\ lastExtract' = Extraction(source.val, path)
                /\ final_metadata' = Records(extract_metadata(source.val, path))
           ELSE UNCHANGED <<lastExtract, final_metadata>>
    /\ UNCHANGED <<disk, processing_queue, lastLoad, glb, subVars>>

\* extract_all_metadata_parallel, the closure run for one path: find_any
\* yields some accepting Source, not necessarily the first.
ParallelPath(path) ==
    /\ pc \in {"start", "par"}
    /\ Len(paths) < MaxPaths
    /\ call' = "parallel"
    /\ pc' = "par"
    /\ paths' = Append(paths, path)
    /\ \/ /\ acceptors(path) = {}
          /\ UNCHANGED <<lastExtract, final_metadata>>
       \/ \E i \in acceptors(path) :
             /\ lastExtract' = Extraction(Sources[i], path)
             /\ final_metadata' =
                    final_metadata \o Records(extract_metadata(Sources[i], path))
    /\ UNCHANGED <<disk, processing_queue, lastLoad, glb, subVars>>

\* extract_all_metadata_parallel returns the collected list.
ParallelReturn ==
    /\ pc = "par"
    /\ pc' = "done"
    /\ UNCHANGED <<disk, call, paths, processing_queue, final_metadata, lastExtract,
                   lastLoad, glb, subVars>>

\* Pipeline::load_bytes on a record the extraction returned.  load_bytes
\* changes no state of the pipeline, so one call is observed per run.
PipelineLoad(i) ==
    /\ pc = "done"
    /\ pc' = "loaded"
    /\ LET loaded == Pipeline_load_bytes(final_metadata[i])
       IN  lastLoad' = Load("Pipeline", loaded.source, "pipeline",
                            final_metadata[i].embedded_hint, loaded.result)
    /\ UNCHANGED <<disk, call, paths, processing_queue, final_metadata,
                   lastExtract, glb, subVars>>

\* Source::load_bytes of `source` on a hint of a record that the last
\* extraction by a Source produced.
SourceLoad(source) ==
    /\ pc = "done"
    /\ pc' = "loaded"
    /\ lastExtract.via # "none"
    /\ \E i \in DOMAIN Records(lastExtract.result) :
          LET hint == lastExtract.result.val[i].embedded_hint
          IN  lastLoad' = Load("Source", source, lastExtract.source, hint,
                               load_bytes(source, hint))
    /\ UNCHANGED <<disk, call, paths, processing_queue, final_metadata,
                   lastExtract, glb, subVars>>

Next ==
    \/ \E path \in InputPaths : SeedPath(path)
    \/ LoopStep
    \/ LoopReturn
    \/ \E path \in InputPaths : SinglePath(path)
    \/ \E path \in InputPaths : ParallelPath(path)
    \/ ParallelReturn
    \/ \E i \in DOMAIN final_metadata : PipelineLoad(i)
    \/ \E source \in {"Glb", "Fbx", "Zip", "Image"} : SourceLoad(source)

Spec == Init /\ [][Next]_vars

\* ------------------------------------------- GlbSource, one slot at a time
\* GlbSource::extract_metadata on a generated glTF binary, the material loop
\* taken one slot at a time: the texture a slot refers to is drawn when the
\* loop reaches the slot.  GlbSource::extract_metadata_from_reader runs over
\* the same bytes, read as entry ReaderEntry of the archive PackZip, and meets
\* the same slots.
ReaderEntry == "model.glb"
PngFlat == Img("Png", 100, 8, 24, 0, 64)
TextureImages == {PngBig, PngFlat, JunkBlob}
JsonLengths == {16, 20}

\* Texture i (0-based) of a generated document: its own buffer view.
GeneratedTextures(images) ==
    [i \in DOMAIN images |->
        ViewTex("tex" \o ToString(i - 1), (i - 1) * PngBig.size, images[i])]

TextureLists ==
    UNION {{GeneratedTextures(images) : images \in [1..n -> TextureImages]} :
           n \in 0..MaxTex}

material_name(m) == "mat" \o ToString(m)

InitGlb ==
    /\ \E textures \in TextureLists, jsonLen \in JsonLengths :
          disk = [DiskWith(<<>>) EXCEPT
                    ![ModelGlb] = GlbFile(jsonLen, textures, <<>>),
                    ![UpperGlb] = GlbFile(jsonLen, textures, <<>>)]
    /\ call = "none"
    /\ pc = "start"
    /\ paths = <<>>
    /\ processing_queue = <<>>
    /\ final_metadata = <<>>
    /\ lastExtract = NoCall
    /\ lastLoad = NoCall
    /\ SubIdle
    /\ \E path \in {ModelGlb, UpperGlb}, materials \in 0..MaxMat :
          /\ unwrap_or_false(GlbSource_can_load_path(path))
          /\ glb = [pc |-> "materials", path |-> path, materials |-> materials,
                    k |-> 0, acc |-> NoTextures, referenced |-> {},
                    repeated |-> FALSE, result |-> Err("pending"),
                    reader_acc |-> NoTextures, reader_result |-> Err("pending")]

\* One slot of one material: it refers to texture_index, or to no texture.
GlbSlot(texture_index) ==
    /\ glb.pc = "materials"
    /\ glb.k < Len(Slots) * glb.materials
    /\ LET s == (glb.k % Len(Slots)) + 1
           metadata == IF texture_index = NoTex THEN Err("none")
                       ELSE extract_texture_metadata_from_texture(
                                disk[glb.path].textures[texture_index + 1],
                                slot_label(material_name(glb.k \div Len(Slots)), s),
                                glb.path, glb_blob_offset(glb.path))
           from_reader == IF texture_index = NoTex THEN Err("none")
                          ELSE extract_texture_metadata_from_reader(
                                   disk[glb.path].textures[texture_index + 1],
                                   slot_label(material_name(glb.k \div Len(Slots)), s),
                                   PackZip, ReaderEntry)
       IN  glb' = [glb EXCEPT
                     !.k = glb.k + 1,
                     !.acc = glb_slot(glb.acc, texture_index, metadata),
                     !.reader_acc = glb_slot(glb.reader_acc, texture_index, from_reader),
                     !.referenced = glb.referenced \cup ({texture_index} \ {NoTex}),
                     !.repeated = glb.repeated \/ texture_index \in glb.acc.processed]
    /\ UNCHANGED <<disk, pipelineVars, subVars>>

\* The loop over the document's textures and the return of extract_metadata;
\* the return of extract_metadata_from_reader.
GlbFinish ==
    /\ glb.pc = "materials"
    /\ glb.k = Len(Slots) * glb.materials
    /\ glb' = [glb EXCEPT
                 !.pc = "done",
                 !.reader_result = GlbSource_reader_finish(glb.reader_acc),
                 !.result = GlbSource_finish(glb.acc, disk[glb.path].textures,
                                             glb.path, glb_blob_offset(glb.path))]
    /\ UNCHANGED <<disk, pipelineVars, subVars>>

\* GlbSource::load_bytes on the hint of a record extract_metadata returned.
GlbLoad(i) ==
    /\ glb.pc = "done"
    /\ glb' = [glb EXCEPT !.pc = "loaded"]
    /\ LET hint == glb.result.val[i].embedded_hint
       IN  lastLoad' = Load("Source", "Glb", "Glb", hint, GlbSource_load_bytes(hint))
    /\ UNCHANGED <<disk, call, pc, paths, processing_queue, final_metadata,
                   lastExtract, subVars>>

NextGlb ==
    \/ \E texture_index \in {NoTex} \cup (0..(Len(disk[glb.path].textures) - 1)) :
          GlbSlot(texture_index)
    \/ GlbFinish
    \/ \E i \in DOMAIN Records(glb.result) : GlbLoad(i)

SpecGlb == InitGlb /\ [][NextGlb]_vars

\* ------------------------------- extract_all_metadata_parallel, the workers
\* SourceRegistry::extract_all_metadata_parallel on a batch of paths: rayon
\* runs the closure of each path on some worker, the closures in any order
\* and interleaved; collect() joins the lists the closures return in the
\* order of the paths.
MaxBatch == 2

\* flatten() over the Option<Vec<EmbeddedMetadata>> of the closures that
\* stops at the first None.
RECURSIVE flatten_UntilNone(_, _)
flatten_UntilNone(out, i) ==
    IF i > Len(out) \/ ~out[i].some THEN <<>>
    ELSE out[i].val \o flatten_UntilNone(out, i + 1)

\* filter_map(...).flatten().collect() from closure i on: the lists of the
\* closures that returned Some, in the order of the paths.
RECURSIVE flatten(_, _)
flatten(out, i) ==
    IF i > Len(out) THEN <<>>
    ELSE (IF out[i].some THEN out[i].val ELSE <<>>) \o flatten(out, i + 1)

\* A batch of up to MaxBatch paths; pack.zip holds an image and an entry
\* that is neither an image nor a container.
InitPar ==
    /\ disk = DiskWith(<<ZipEntry(FALSE, TRUE, PngBig), ZipEntry(FALSE, TRUE, JunkBlob)>>)
    /\ PipelineIdle
    /\ glb = GlbIdle
    /\ dec = [pc |-> "idle"]
    /\ LoaderIdle
    /\ FbxIdle
    /\ \E batch \in UNION {[1..n -> {PackZip, PhotoPng, FakeFbx, EmptyGlb, GoneFbx, NotesTxt}] :
                           n \in 0..MaxBatch} :
          par = [pc |-> "run", paths |-> batch,
                 stage |-> [i \in DOMAIN batch |-> "find"],
                 source |-> [i \in DOMAIN batch |-> "none"],
                 out |-> [i \in DOMAIN batch |-> None],
                 result |-> <<>>]

\* The closure of path i looks for a Source: find_any yields some acceptor;
\* without one the closure returns None.
ParFind(i) ==
    /\ par.pc = "run"
    /\ par.stage[i] = "find"
    /\ \/ /\ acceptors(par.paths[i]) = {}
          /\ par' = [par EXCEPT !.stage[i] = "done"]
       \/ \E s \in acceptors(par.paths[i]) :
             par' = [par EXCEPT !.stage[i] = "extract", !.source[i] = Sources[s]]
    /\ UNCHANGED <<disk, pipelineVars, glb, dec, loader, app, fbx, md, probe>>

\* The closure of path i extracts with the Source it found: Some(list), or
\* None after the warning when the extraction fails.
ParExtract(i) ==
    /\ par.pc = "run"
    /\ par.stage[i] = "extract"
    /\ LET result == extract_metadata(par.source[i], par.paths[i])
       IN  par' = [par EXCEPT
                     !.stage[i] = "done",
                     !.out[i] = IF result.ok THEN Some(result.val) ELSE None]
    /\ UNCHANGED <<disk, pipelineVars, glb, dec, loader, app, fbx, md, probe>>

\* Every closure has returned: collect() gives the combined list.
ParCollect ==
    /\ par.pc = "run"
    /\ \A i \in DOMAIN par.paths : par.stage[i] = "done"
    /\ par' = [par EXCEPT !.pc = "done", !.result = flatten(par.out, 1)]
    /\ UNCHANGED <<disk, pipelineVars, glb, dec, loader, app, fbx, md, probe>>

NextPar ==
    \/ \E i \in DOMAIN par.paths : ParFind(i)
    \/ \E i \in DOMAIN par.paths : ParExtract(i)
    \/ ParCollect

SpecPar == InitPar /\ [][NextPar]_vars

\* ------------------------------------------------ the decoders (parsers/)
\* A LoadedImageData is its format, the width and height detection reported,
\* and what the decoding library makes of its bytes: `decode` is the outcome
\* of the library call ("ok", "error", or "panic" for texture2ddecoder),
\* `transcode` whether a KTX2 texture needs transcoding, `bpp` the bytes a
\* stored KTX2 pixel takes when it does not.
MaxCompressedDim == 16384
U16 == 65536

Parsers == <<"Standard", "Ktx2", "Compressed">>

can_parse(parser, data) ==
    CASE parser = "Standard" ->
             data.format \in {"Png", "Jpeg", "Webp", "Bmp", "Tiff", "Gif", "Exr", "Heif",
                              "Hdr", "Ico", "Pnm", "Qoi", "Tga", "Farbfeld"}
      [] parser = "Ktx2" -> data.format = "Ktx2"
      [] parser = "Compressed" ->
             data.format \in {"Dds", "Etc2", "Eac", "Pvrtc", "Atc", "Astc"}

\* A decoded result: the macroquad Image (u16 width and height, the pixel
\* bytes by their number) and the ImageInfo (u32 width and height).
Decoded(image_width, image_height, bytes, info_width, info_height) ==
    [kind |-> "ok",
     image |-> [width |-> image_width, height |-> image_height, bytes |-> bytes],
     info |-> [width |-> info_width, height |-> info_height]]

DecodeError(message) == [kind |-> "err", message |-> message]

StandardFormat_parse(data) ==
    IF data.decode # "ok" THEN DecodeError("image::load_from_memory")
    ELSE Decoded(data.width % U16, data.height % U16, 4 * data.width * data.height,
                 data.width, data.height)

Ktx2Format_parse(data) ==
    IF data.decode # "ok" THEN DecodeError("ktx2_rw")
    ELSE Decoded(data.width % U16, data.height % U16,
                 (IF data.transcode THEN 4 ELSE data.bpp) * data.width * data.height,
                 data.width, data.height)

\* decompress_texture: Ok(number of RGBA bytes), Err, or a panic.
decompress_texture(data) ==
    IF data.width = 0 \/ data.height = 0
       \/ data.width > MaxCompressedDim \/ data.height > MaxCompressedDim
    THEN DecodeError("Invalid texture dimensions")
    ELSE CASE data.decode = "ok" -> [kind |-> "ok", bytes |-> 4 * data.width * data.height]
           [] data.decode = "error" -> DecodeError("decode error")
           [] data.decode = "panic" -> [kind |-> "panic"]

\* CompressedFormat::parse without catch_unwind.
CompressedFormat_parse_NoCatch(data) ==
    LET texture == decompress_texture(data)
    IN  IF texture.kind # "ok" THEN texture
        ELSE Decoded(data.width % U16, data.height % U16, texture.bytes,
                     data.width, data.height)

CompressedFormat_parse(data) ==
    LET texture == decompress_texture(data)
    IN  CASE texture.kind = "panic" ->
                 DecodeError("Compressed texture decoder panicked for format " \o data.format)
          [] texture.kind = "err" -> texture
          [] texture.kind = "ok" ->
                 Decoded(data.width % U16, data.height % U16, texture.bytes,
                         data.width, data.height)

parse(parser, data) ==
    CASE parser = "Standard" -> StandardFormat_parse(data)
      [] parser = "Ktx2" -> Ktx2Format_parse(data)
      [] parser = "Compressed" -> CompressedFormat_parse(data)

\* The loop of parse_image_data that hands data no decoder accepts to the
\* last decoder.
RECURSIVE parse_image_data_LastResort(_, _)
parse_image_data_LastResort(k, data) ==
    IF k > Len(Parsers)
    THEN [called |-> {Parsers[Len(Parsers)]}, result |-> parse(Parsers[Len(Parsers)], data)]
    ELSE IF can_parse(Parsers[k], data)
         THEN [called |-> {Parsers[k]}, result |-> parse(Parsers[k], data)]
         ELSE parse_image_data_LastResort(k + 1, data)

\* Pipeline::parse_image_data, the loop from decoder k on: the decoders
\* whose parse was called, and the result.
RECURSIVE parse_image_data(_, _)
parse_image_data(k, data) ==
    IF k > Len(Parsers)
    THEN [called |-> {},
          result |-> DecodeError("No parser found for image format: " \o data.format)]
    ELSE IF can_parse(Parsers[k], data)
         THEN [called |-> {Parsers[k]}, result |-> parse(Parsers[k], data)]
         ELSE parse_image_data(k + 1, data)

\* Any format imagesize names (two of them without decoder), dimensions
\* around the limits of the decoders and of u16, one of the two small; an
\* image that decodes has positive dimensions.
InitDecode ==
    /\ disk = DiskWith(<<>>)
    /\ PipelineIdle
    /\ glb = GlbIdle
    /\ par = [pc |-> "idle"]
    /\ LoaderIdle
    /\ FbxIdle
    /\ \E format \in {"Png", "Jpeg", "Heif", "Ktx2", "Dds", "Astc", "Psd", "Jxl"},
          width \in {0, 1, 64, MaxCompressedDim, MaxCompressedDim + 1, U16 - 1, U16},
          height \in {0, 1, 64, U16 + 64},
          decode \in {"ok", "error", "panic"}, transcode \in BOOLEAN, bpp \in {1, 4} :
          /\ (width > 64) => (height <= 64)
          /\ (decode = "ok" /\ format \notin {"Dds", "Astc"}) => (width > 0 /\ height > 0)
          /\ (decode = "panic") => (format \in {"Dds", "Astc"})
          /\ (format # "Ktx2") => (transcode /\ bpp = 4)
          /\ dec = [pc |-> "start",
                    data |-> [format |-> format, width |-> width, height |-> height,
                              decode |-> decode, transcode |-> transcode, bpp |-> bpp],
                    called |-> {}, result |-> DecodeError("pending")]

ParseImageData ==
    /\ dec.pc = "start"
    /\ LET parsed == parse_image_data(1, dec.data)
       IN  dec' = [dec EXCEPT !.pc = "done", !.called = parsed.called,
                              !.result = parsed.result]
    /\ UNCHANGED <<disk, pipelineVars, glb, par, loader, app, fbx, md, probe>>

SpecDecode == InitDecode /\ [][ParseImageData]_vars

\* --------------------------- CompressedFormat on uncompressed DDS payloads
\* A u32 pixel of the decode buffer is its four bytes, lowest first: lane 1
\* is pixel & 0xFF, lane 2 is (pixel >> 8) & 0xFF, and so on.
MaxPixels == 2
ByteValues == {0, 255}

\* decompress_dds for Rgba32 and Rgb24: the decode buffer, or an error.
decompress_dds(data, width, height, compression) ==
    CASE compression = "Rgba32" ->
             IF Len(data) # width * height * 4 THEN Err("Invalid RGBA32 data size")
             ELSE Ok([i \in 1..(width * height) |->
                        <<data[4 * i - 3], data[4 * i - 2], data[4 * i - 1], data[4 * i]>>])
      [] compression = "Rgb24" ->
             IF Len(data) # width * height * 3 THEN Err("Invalid RGB24 data size")
             ELSE Ok([i \in 1..(width * height) |->
                        <<data[3 * i - 2], data[3 * i - 1], data[3 * i], 255>>])
      [] OTHER -> Err("Unknown DDS compression format")

\* The conversion of the decode buffer to bytes, pixel by pixel: for Pvrtc,
\* Etc2, Eac and Dds the byte of lane 3 first, then lanes 2, 1 and 4.
RECURSIVE rgba_bytes(_, _)
rgba_bytes(rgba_buffer, format) ==
    IF rgba_buffer = <<>> THEN <<>>
    ELSE LET pixel == Head(rgba_buffer)
         IN  (IF format \in {"Pvrtc", "Etc2", "Eac", "Dds"}
              THEN <<pixel[3], pixel[2], pixel[1], pixel[4]>>
              ELSE <<pixel[1], pixel[2], pixel[3], pixel[4]>>)
             \o rgba_bytes(Tail(rgba_buffer), format)

InitDds ==
    /\ disk = DiskWith(<<>>)
    /\ PipelineIdle
    /\ glb = GlbIdle
    /\ par = [pc |-> "idle"]
    /\ LoaderIdle
    /\ FbxIdle
    /\ \E compression \in {"Rgba32", "Rgb24", "Unknown"}, width \in 1..MaxPixels,
          channels \in 3..4 :
          \E bytes \in [1..(width * channels) -> ByteValues] :
             dec = [pc |-> "payload", format |-> "Dds", compression |-> compression,
                    width |-> width, height |-> 1, data |-> bytes,
                    result |-> Err("pending")]

\* decompress_texture on the payload: the decode buffer, then its bytes.
DecompressTexture ==
    /\ dec.pc = "payload"
    /\ LET rgba_buffer == decompress_dds(dec.data, dec.width, dec.height, dec.compression)
       IN  dec' = [dec EXCEPT
                     !.pc = "bytes",
                     !.result = IF rgba_buffer.ok
                                THEN Ok(rgba_bytes(rgba_buffer.val, dec.format))
                                ELSE rgba_buffer]
    /\ UNCHANGED <<disk, pipelineVars, glb, par, loader, app, fbx, md, probe>>

SpecDds == InitDds /\ [][DecompressTexture]_vars

\* ----------------------------- UltraFastFbxParser on a file without nodes
\* extract_textures on a binary FBX file that is the 27 header bytes (magic,
\* two bytes, version), the null-node marker of the version's node header
\* length, and `trailing` further bytes.  The build checks integer overflow
\* (debug) or lets it wrap (release).
MaxTrailing == 40
FbxHeaderLen == 27
EndMargin == 50

\* The length of a node header: 25 bytes from version 7500 on, 13 before.
node_header_len(version) == IF version >= 7500 THEN 25 ELSE 13

\* current_pos >= self.file_size - 50 in u64: the difference of a file
\* shorter than 50 bytes wraps to more than 2^63, above every position.
near_end(current_pos, file_size) ==
    IF file_size >= EndMargin THEN current_pos >= file_size - EndMargin ELSE FALSE

InitFbx ==
    /\ disk = DiskWith(<<>>)
    /\ PipelineIdle
    /\ glb = GlbIdle
    /\ par = [pc |-> "idle"]
    /\ dec = [pc |-> "idle"]
    /\ LoaderIdle
    /\ \E version \in {0, 6100, 7400, 7500, 7700}, trailing \in 0..MaxTrailing,
          build \in {"debug", "release"} :
          fbx = [pc |-> "header", build |-> build, fbx_version |-> 0,
                 version |-> version,
                 file_size |-> FbxHeaderLen + node_header_len(version) + trailing,
                 pos |-> 0, result |-> Err("pending")]

\* extract_textures reads the magic and the version.
FbxReadHeader ==
    /\ fbx.pc = "header"
    /\ fbx' = IF fbx.file_size < FbxHeaderLen
              THEN [fbx EXCEPT !.pc = "done", !.result = Err("Io")]
              ELSE [fbx EXCEPT !.pc = "loop", !.pos = FbxHeaderLen,
                               !.fbx_version = fbx.version]
    /\ UNCHANGED <<disk, pipelineVars, glb, par, dec, loader, app, md, probe>>

\* One turn of the loop of parse_fbx_nodes_for_textures at the null-node
\* marker: the end-of-file test, then read_fbx_node, which returns Ok(None)
\* when the header cannot be read in full or is the marker.
FbxLoop ==
    /\ fbx.pc = "loop"
    /\ fbx' = IF fbx.file_size < EndMargin /\ fbx.build = "debug"
              THEN [fbx EXCEPT !.pc = "done",
                               !.result = Err("panic: attempt to subtract with overflow")]
              ELSE IF near_end(fbx.pos, fbx.file_size)
              THEN [fbx EXCEPT !.pc = "done", !.result = Ok(<<>>)]
              ELSE [fbx EXCEPT
                      !.pc = "done",
                      !.pos = Min(fbx.pos + node_header_len(fbx.fbx_version),
                                  fbx.file_size),
                      !.result = Ok(<<>>)]
    /\ UNCHANGED <<disk, pipelineVars, glb, par, dec, loader, app, md, probe>>

NextFbx == FbxReadHeader \/ FbxLoop

SpecFbx == InitFbx /\ [][NextFbx]_vars

\* ------------------------------ UltraFastFbxParser, the walk over the nodes
\* A file of version 7400 (13-byte node headers): a node header at each
\* position of DOMAIN at, zero bytes everywhere else after the file header.
NodeCap == 10000
SkipAhead == 100
MaxNameLen == 100
MaxPropertyListLen == 1073741824
WalkFileSize == 387

\* A node header and what follows it: the name the name bytes spell (utf8:
\* whether they are valid UTF-8), and the value the first string or binary
\* property of the property block holds ("" when it holds none).
Hdr(name, name_len, property_list_len, end_offset, value) ==
    [name |-> name, name_len |-> name_len, property_list_len |-> property_list_len,
     end_offset |-> end_offset, utf8 |-> TRUE, value |-> value]

NullHdr == Hdr("", 0, 0, 0, "")

\* The well-formed file: a plain node, a Video node with a file name and a
\* content, an Objects node holding a Video node with a content, a plain
\* node; every list of children that does not fill its parent ends in zeros.
WalkBase ==
    (27 :> Hdr("Model", 5, 7, 127, "")) @@
    (127 :> Hdr("Video", 5, 2, 227, "")) @@
    (147 :> Hdr("RelativeFilename", 16, 11, 187, "a.png")) @@
    (187 :> Hdr("Content", 7, 20, 227, "png-a")) @@
    (227 :> Hdr("Objects", 7, 0, 327, "")) @@
    (247 :> Hdr("Texture", 7, 0, 327, "")) @@
    (267 :> Hdr("Content", 7, 20, 307, "png-b")) @@
    (327 :> Hdr("Takes", 5, 0, 345, ""))

\* The ways one node header of the file is damaged.
Faults ==
    {"self", "name_len", "property_list_len", "property_list_max", "end_past_file",
     "end_past_double", "utf8"}

Damaged(h, pos, fault) ==
    CASE fault = "self" -> [h EXCEPT !.end_offset = pos]
      [] fault = "name_len" -> [h EXCEPT !.name_len = MaxNameLen + 1]
      [] fault = "property_list_len" -> [h EXCEPT !.property_list_len = WalkFileSize + 1]
      [] fault = "property_list_max" ->
             [h EXCEPT !.property_list_len = MaxPropertyListLen + 1]
      [] fault = "end_past_file" -> [h EXCEPT !.end_offset = WalkFileSize + 1]
      [] fault = "end_past_double" -> [h EXCEPT !.end_offset = 2 * WalkFileSize + 1]
      [] fault = "utf8" -> [h EXCEPT !.utf8 = FALSE]

\* The file with the node at pos damaged: the bytes of the children the
\* well-formed node had are zero, and so are its name and property bytes
\* when the header announces a name of 101 bytes, a property block above
\* 2^30 bytes or an end-offset above twice the file size.
WithFault(at, pos, fault) ==
    [p \in {q \in DOMAIN at : q <= pos \/ q >= at[pos].end_offset} |->
        IF p = pos THEN Damaged(at[p], p, fault) ELSE at[p]]

WalkFiles ==
    {WalkBase} \cup {WithFault(WalkBase, pos, fault) : pos \in DOMAIN WalkBase, fault \in Faults}

HeaderAt(at, pos) == IF pos \in DOMAIN at THEN at[pos] ELSE NullHdr

\* read_fbx_node at pos: what it returns (res: "node", "none", "err"), the
\* header it parsed, where it leaves the reader, and the bytes of the name
\* and property buffers it allocated.
read_fbx_node(at, file_size, pos) ==
    LET h == HeaderAt(at, pos)
        name_end == pos + 13 + h.name_len
        Read(res, at_pos, bytes) ==
            [res |-> res, node |-> h, pos |-> at_pos, allocated |-> bytes]
    IN  IF pos + 13 > file_size THEN Read("none", IF pos > file_size THEN pos ELSE file_size, 0)
        ELSE IF h.end_offset = 0 /\ h.name_len = 0 THEN Read("none", pos + 13, 0)
        ELSE IF \/ h.name_len > MaxNameLen
                \/ h.property_list_len > MaxPropertyListLen
                \/ h.end_offset > file_size * 2
             THEN Read("err", pos + 13, 0)
        ELSE IF name_end > file_size THEN Read("err", file_size, h.name_len)
        ELSE IF ~h.utf8 THEN Read("err", name_end, h.name_len)
        ELSE IF name_end + h.property_list_len > file_size
             THEN Read("err", file_size, h.name_len + h.property_list_len)
        ELSE Read("node", name_end + h.property_list_len,
                  h.name_len + h.property_list_len)

TextureData(name) == [name |-> name, relative_filename |-> None, content |-> None]

InitWalk ==
    /\ disk = DiskWith(<<>>)
    /\ PipelineIdle
    /\ glb = GlbIdle
    /\ par = [pc |-> "idle"]
    /\ dec = [pc |-> "idle"]
    /\ LoaderIdle
    /\ \E at \in WalkFiles :
          fbx = [pc |-> "header", fbx_version |-> 0, version |-> 7400,
                 file_size |-> WalkFileSize, at |-> at, pos |-> 0,
                 node_count |-> 0, textures |-> <<>>, objects_end |-> 0,
                 texture_end |-> 0, texture_data |-> TextureData(""),
                 caller |-> "loop", last |-> "none", read_at |-> 0, allocated |-> 0,
                 result |-> Err("pending")]

\* The end of one turn of the loop of parse_fbx_nodes_for_textures with the
\* reader at pos: the node cap, then the next turn.
end_of_turn(s, pos) ==
    IF s.node_count > NodeCap
    THEN [s EXCEPT !.pc = "done", !.pos = pos, !.result = Ok(s.textures)]
    ELSE [s EXCEPT !.pc = "loop", !.pos = pos]

skip_after_error_Abort(s, current_pos) ==
    [s EXCEPT !.pc = "done", !.result = Err("Invalid node header values")]

\* The Err arm of the loop: skip ahead from the start of the node or stop.
skip_after_error(s, current_pos) ==
    IF current_pos + SkipAhead < s.file_size
    THEN end_of_turn(s, current_pos + SkipAhead)
    ELSE [s EXCEPT !.pc = "done", !.result = Ok(s.textures)]

\* One turn of the loop of parse_fbx_nodes_for_textures, up to the call it
\* makes for a Video, Texture or Objects node.
WalkTop ==
    /\ fbx.pc = "loop"
    /\ LET r == read_fbx_node(fbx.at, fbx.file_size, fbx.pos)
           s == [fbx EXCEPT !.last = r.res, !.read_at = fbx.pos, !.allocated = r.allocated,
                             !.pos = r.pos]
           counted == [s EXCEPT !.node_count = fbx.node_count + 1]
       IN  fbx' =
             IF near_end(fbx.pos, fbx.file_size)
             THEN [fbx EXCEPT !.pc = "done", !.result = Ok(fbx.textures)]
             ELSE IF r.res = "none" THEN [s EXCEPT !.pc = "done", !.result = Ok(fbx.textures)]
             ELSE IF r.res = "err" THEN skip_after_error(s, fbx.pos)
             ELSE IF r.node.name \in {"Video", "Texture"}
             THEN [counted EXCEPT !.pc = "texture", !.caller = "loop",
                                  !.texture_end = r.node.end_offset,
                                  !.texture_data = TextureData(r.node.name)]
             ELSE IF r.node.name = "Objects"
             THEN [counted EXCEPT !.pc = "objects", !.objects_end = r.node.end_offset]
             ELSE end_of_turn(counted, r.node.end_offset)
    /\ UNCHANGED <<disk, pipelineVars, glb, par, dec, loader, app, md, probe>>

\* One turn of the loop of parse_objects_node_for_textures, or its end.
WalkObjects ==
    /\ fbx.pc = "objects"
    /\ LET r == read_fbx_node(fbx.at, fbx.file_size, fbx.pos)
           s == [fbx EXCEPT !.last = r.res, !.read_at = fbx.pos, !.allocated = r.allocated,
                             !.pos = r.pos]
       IN  fbx' =
             IF fbx.pos >= fbx.objects_end THEN end_of_turn(fbx, fbx.pos)
             ELSE IF r.res # "node" THEN end_of_turn(s, r.pos)
             ELSE IF r.node.name \in {"Video", "Texture"}
             THEN [s EXCEPT !.pc = "texture", !.caller = "objects",
                            !.texture_end = r.node.end_offset,
                            !.texture_data = TextureData(r.node.name)]
             ELSE [s EXCEPT !.pos = r.node.end_offset]
    /\ UNCHANGED <<disk, pipelineVars, glb, par, dec, loader, app, md, probe>>

\* The return of extract_texture_from_fbx_node: the reader at the end of the
\* node, the texture pushed when a file name or a content was found.
texture_return(s) ==
    LET found == s.texture_data.content.some \/ s.texture_data.relative_filename.some
        pushed == [s EXCEPT !.textures =
                       IF found THEN Append(s.textures, s.texture_data) ELSE s.textures]
    IN  IF s.caller = "objects"
        THEN [pushed EXCEPT !.pc = "objects", !.pos = s.texture_end]
        ELSE end_of_turn(pushed, s.texture_end)

\* One turn of the loop of extract_texture_from_fbx_node, or its end.
WalkTexture ==
    /\ fbx.pc = "texture"
    /\ LET r == read_fbx_node(fbx.at, fbx.file_size, fbx.pos)
           s == [fbx EXCEPT !.last = r.res, !.read_at = fbx.pos, !.allocated = r.allocated,
                             !.pos = r.pos]
           value == IF r.node.value = "" THEN None ELSE Some(r.node.value)
       IN  fbx' =
             IF fbx.pos >= fbx.texture_end THEN texture_return(fbx)
             ELSE IF r.res # "node" THEN texture_return(s)
             ELSE IF r.node.name \in {"RelativeFilename", "RelativeFileName"} /\ value.some
             THEN [s EXCEPT !.pos = r.node.end_offset,
                            !.texture_data.relative_filename = value]
             ELSE IF r.node.name = "Content" /\ value.some
             THEN [s EXCEPT !.pos = r.node.end_offset, !.texture_data.content = value]
             ELSE [s EXCEPT !.pos = r.node.end_offset]
    /\ UNCHANGED <<disk, pipelineVars, glb, par, dec, loader, app, md, probe>>

NextWalk == FbxReadHeader \/ WalkTop \/ WalkObjects \/ WalkTexture

\* The parser runs on the thread that called it and is never suspended for
\* ever: a step that can be taken is taken.
SpecWalk == InitWalk /\ [][NextWalk]_vars /\ WF_vars(NextWalk)

\* ----------------------------------------- FbxSource::ensure_unique_names
\* The records extract_metadata hands to ensure_unique_names carry the name
\* of the node they come from, Video or Texture; the function itself takes
\* any names.
MaxNames == 4
NodeNames == {"Video", "Texture"}
RecordNames == NodeNames \cup {"Video_1"}

InitNames ==
    /\ disk = DiskWith(<<>>)
    /\ PipelineIdle
    /\ glb = GlbIdle
    /\ par = [pc |-> "idle"]
    /\ dec = [pc |-> "idle"]
    /\ LoaderIdle
    /\ \E n \in 0..MaxNames : \E names \in [1..n -> RecordNames] :
          fbx = [pc |-> "names",
                 results |-> [i \in 1..n |-> [name |-> names[i], texture_index |-> i - 1]],
                 final_results |-> <<>>]

EnsureUniqueNames ==
    /\ fbx.pc = "names"
    /\ fbx' = [fbx EXCEPT !.pc = "named",
                          !.final_results = ensure_unique_names(fbx.results)]
    /\ UNCHANGED <<disk, pipelineVars, glb, par, dec, loader, app, md, probe>>

SpecNames == InitNames /\ [][EnsureUniqueNames]_vars

\* ------------------------------------- AsyncImageLoader and the image slots
\* A record handed to start_loading_batch is its source path, its name and
\* whether load_single_image_with_hint succeeds on it.  A result carries the
\* number of the batch whose task made it, which the program does not keep.
MaxSessions == 2
MaxRecords == 2

\* The key update_async_loading gives a slot, format!("{}:{}", ..) as a
\* pair: source path and name for a placeholder, path and file name of the
\* path for a loaded image.
slot_key(slot) ==
    IF slot.state = "Placeholder" THEN <<slot.source_path, slot.name>>
    ELSE <<slot.source_path, slot.source_path>>

\* find_slot_by_key: the first Placeholder slot of the key, 0 when none.
find_slot_by_key(slots, key) ==
    LET found == {i \in DOMAIN slots :
                     slots[i].state = "Placeholder" /\ slot_key(slots[i]) = key}
    IN  IF found = {} THEN 0 ELSE CHOOSE i \in found : \A j \in found : i <= j

\* The slots after update_async_loading has handled one completed entry:
\* the slot found is marked loaded, or retain(..) keeps the slots whose key
\* is not the failed key.
slots_after(slots, entry) ==
    LET i == find_slot_by_key(slots, entry.key)
        kept(slot) == slot_key(slot) # entry.key
    IN  IF i = 0 THEN slots
        ELSE IF entry.ok THEN [slots EXCEPT ![i].state = "Loaded"]
        ELSE SelectSeq(slots, kept)

\* "Check if all loading is complete" at the end of update_async_loading.
loading_after(slots) ==
    LET still_loading == \E i \in DOMAIN slots : slots[i].state = "Placeholder"
        has_loaded == \E i \in DOMAIN slots : slots[i].state = "Loaded"
    IN  IF app.is_loading /\ ~app.loading_completed_once /\ ~app.metadata_pending
           /\ ~still_loading
        THEN IF has_loaded
             THEN [app EXCEPT !.image_slots = slots, !.is_loading = FALSE,
                              !.loading_completed_once = TRUE]
             ELSE IF slots = <<>>
             THEN [app EXCEPT !.image_slots = slots, !.is_loading = FALSE,
                              !.loading_completed_once = FALSE]
             ELSE [app EXCEPT !.image_slots = slots]
        ELSE [app EXCEPT !.image_slots = slots]

\* The application after load_images on its initial file: the metadata
\* extraction runs, no batch has been started.
InitLoader ==
    /\ disk = DiskWith(<<>>)
    /\ PipelineIdle
    /\ glb = GlbIdle
    /\ par = [pc |-> "idle"]
    /\ dec = [pc |-> "idle"]
    /\ FbxIdle
    /\ MdIdle
    /\ loader = [cancel_flag |-> FALSE, completed_images |-> {}, tasks |-> <<>>,
                 batches |-> 0, cancelled |-> 0, returned |-> {}]
    /\ app = [image_slots |-> <<>>, is_loading |-> TRUE,
              loading_completed_once |-> FALSE, metadata_pending |-> TRUE,
              sessions |-> 1]

\* check_metadata_results on the frame the last metadata receiver completes:
\* the placeholder slots are made and start_loading_batch spawns one task
\* per record, unless no record arrived.
CheckMetadataResults(records) ==
    /\ app.metadata_pending
    /\ IF records = <<>>
       THEN /\ app' = [app EXCEPT !.metadata_pending = FALSE]
            /\ UNCHANGED loader
       ELSE /\ app' = [app EXCEPT
                         !.metadata_pending = FALSE,
                         !.image_slots =
                             [i \in DOMAIN records |->
                                 [source_path |-> records[i].source_path,
                                  name |-> records[i].name, state |-> "Placeholder"]]]
            /\ loader' = [loader EXCEPT
                            !.cancel_flag = FALSE,
                            !.batches = loader.batches + 1,
                            !.tasks = loader.tasks \o
                                [i \in DOMAIN records |->
                                    [pc |-> "queued", batch |-> loader.batches + 1,
                                     metadata |-> records[i]]]]
    /\ UNCHANGED <<disk, pipelineVars, glb, par, dec, fbx, md, probe>>

\* A task starts: it reads cancel_flag, and loads and parses its image
\* unless the flag is set.
TaskBegin(t) ==
    /\ loader.tasks[t].pc = "queued"
    /\ loader' = [loader EXCEPT
                    !.tasks[t].pc = IF loader.cancel_flag THEN "done" ELSE "loaded"]
    /\ UNCHANGED <<disk, pipelineVars, glb, par, dec, app, fbx, md, probe>>

\* The task reads cancel_flag again before it stores its result.
TaskRecheck(t) ==
    /\ loader.tasks[t].pc = "loaded"
    /\ loader' = [loader EXCEPT
                    !.tasks[t].pc = IF loader.cancel_flag THEN "done" ELSE "store"]
    /\ UNCHANGED <<disk, pipelineVars, glb, par, dec, app, fbx, md, probe>>

\* The task takes the lock and inserts its result under its key, in place
\* of any result the map holds under that key.
TaskStore(t) ==
    /\ loader.tasks[t].pc = "store"
    /\ LET task == loader.tasks[t]
           entry == [key |-> <<task.metadata.source_path, task.metadata.name>>,
                     ok |-> task.metadata.ok, batch |-> task.batch]
       IN  loader' = [loader EXCEPT
                        !.tasks[t].pc = "done",
                        !.completed_images =
                            {e \in loader.completed_images : e.key # entry.key}
                                \cup {entry}]
    /\ UNCHANGED <<disk, pipelineVars, glb, par, dec, app, fbx, md, probe>>

\* update_async_loading on one frame: update() takes one completed entry,
\* any of them (max_updates_per_frame is 1), the slot of its key is
\* replaced or dropped, and the loading flags are brought up to date.
UpdateAsyncLoading ==
    /\ \/ /\ loader.completed_images = {}
          /\ app' = loading_after(app.image_slots)
          /\ loader' = [loader EXCEPT !.returned = {}]
       \/ \E entry \in loader.completed_images :
             /\ loader' = [loader EXCEPT
                             !.completed_images = loader.completed_images \ {entry},
                             !.returned = {entry}]
             /\ app' = loading_after(slots_after(app.image_slots, entry))
    /\ UNCHANGED <<disk, pipelineVars, glb, par, dec, fbx, md, probe>>

\* handle_file_drops with files to load: cancel_all_loading (cancel_all sets
\* the flag and clears the completed results; the slots are cleared), then
\* load_images starts the next metadata extraction.
HandleFileDrops ==
    /\ app.sessions < MaxSessions
    /\ loader' = [loader EXCEPT !.cancel_flag = TRUE, !.completed_images = {},
                                !.cancelled = loader.batches, !.returned = {}]
    /\ app' = [image_slots |-> <<>>, is_loading |-> TRUE,
               loading_completed_once |-> FALSE, metadata_pending |-> TRUE,
               sessions |-> app.sessions + 1]
    /\ UNCHANGED <<disk, pipelineVars, glb, par, dec, fbx, md, probe>>

\* The lists of records a metadata extraction may deliver.
RecordLists ==
    UNION {[1..n -> {[source_path |-> r[1], name |-> r[2], ok |-> ok] :
                        r \in {<<"pack.zip", "a.png">>, <<"photo.png", "photo.png">>},
                        ok \in BOOLEAN}] : n \in 0..MaxRecords}

TaskStep(t) == TaskBegin(t) \/ TaskRecheck(t) \/ TaskStore(t)

NextSession ==
    \/ \E records \in RecordLists : CheckMetadataResults(records)
    \/ \E t \in DOMAIN loader.tasks : TaskStep(t)
    \/ UpdateAsyncLoading

NextLoader == NextSession \/ HandleFileDrops

SpecLoader == InitLoader /\ [][NextLoader]_vars

\* A session that is never cancelled: rayon runs every task to its end, and
\* the frame loop calls check_metadata_results and update_async_loading on
\* every frame.
SpecSession ==
    /\ InitLoader
    /\ [][NextSession]_vars
    /\ WF_vars(\E records \in RecordLists : CheckMetadataResults(records))
    /\ \A t \in 1..MaxRecords : WF_vars(t \in DOMAIN loader.tasks /\ TaskStep(t))
    /\ WF_vars(UpdateAsyncLoading)

\* ------------------------------- the metadata threads of GTexViewerApp
\* load_images cuts the paths into batches of 8 and spawns one thread with
\* one channel per batch; the records a batch yields are fixed by its paths
\* (one record or none here).  A thread is at its first flag test
\* ("spawned"), at its second ("extracted"), about to send ("sending") or
\* gone ("done"); its channel holds its message until the receiver takes it.
MaxDrops == 1
MaxDropped == 9
BatchSize == 8

Batches(n) == (n + BatchSize - 1) \div BatchSize

\* cancel_all_loading without the three clear() calls.
cancel_all_loading_FlagOnly(s) ==
    [s EXCEPT !.metadata_cancel_flag = TRUE, !.cancels = s.cancels + 1]

cancel_all_loading(s) ==
    [s EXCEPT !.metadata_cancel_flag = TRUE, !.cancels = s.cancels + 1,
              !.image_slots = <<>>, !.metadata_receivers = <<>>,
              !.pending_metadata = <<>>]

\* load_images on n > 0 paths; yields[b] tells whether batch b has a record.
load_images(s, n, yields) ==
    LET first == Len(s.threads)
        load == s.loads + 1
        spawned == [b \in 1..Batches(n) |->
                      [pc |-> "spawned", load |-> load, cancels |-> s.cancels,
                       batch_results |-> IF yields[b]
                                         THEN <<[load |-> load, batch |-> b]>> ELSE <<>>,
                       channel |-> <<>>, sent_after |-> 0 - 1, received |-> FALSE]]
    IN  [s EXCEPT !.metadata_cancel_flag = FALSE, !.loads = load,
                  !.threads = s.threads \o spawned,
                  !.metadata_receivers =
                      s.metadata_receivers \o [b \in 1..Batches(n) |-> first + b]]

\* The concatenation of the messages waiting in the channels of receivers
\* from the i-th on.
RECURSIVE drained(_, _, _)
drained(threads, receivers, i) ==
    IF i > Len(receivers) THEN <<>>
    ELSE (IF threads[receivers[i]].channel = <<>> THEN <<>>
          ELSE threads[receivers[i]].channel[1])
         \o drained(threads, receivers, i + 1)

\* check_metadata_results that starts the batch as soon as records are there.
check_metadata_results_Eager(s) ==
    LET completed == {t \in DOMAIN s.threads :
                         /\ \E i \in DOMAIN s.metadata_receivers : s.metadata_receivers[i] = t
                         /\ s.threads[t].channel # <<>>}
        pending == s.pending_metadata \o drained(s.threads, s.metadata_receivers, 1)
        taken == [t \in DOMAIN s.threads |->
                     IF t \in completed
                     THEN [s.threads[t] EXCEPT !.channel = <<>>, !.received = TRUE]
                     ELSE s.threads[t]]
        left == SelectSeq(s.metadata_receivers, LAMBDA t : t \notin completed)
    IN  IF s.metadata_cancel_flag
        THEN [s EXCEPT !.metadata_receivers = <<>>, !.pending_metadata = <<>>]
        ELSE IF pending # <<>>
        THEN [s EXCEPT !.threads = taken, !.metadata_receivers = left,
                       !.image_slots = pending, !.pending_metadata = <<>>,
                       !.started = Append(s.started, [load |-> s.loads, records |-> pending])]
        ELSE [s EXCEPT !.threads = taken, !.metadata_receivers = left,
                       !.pending_metadata = pending]

\* check_metadata_results: a receiver is completed when its channel held a
\* message; when no receiver is left over and records are pending, the
\* placeholders are made and start_loading_batch gets the records.
check_metadata_results(s) ==
    LET completed == {t \in DOMAIN s.threads :
                         /\ \E i \in DOMAIN s.metadata_receivers : s.metadata_receivers[i] = t
                         /\ s.threads[t].channel # <<>>}
        pending == s.pending_metadata \o drained(s.threads, s.metadata_receivers, 1)
        remaining_receivers == Len(s.metadata_receivers) - Cardinality(completed)
        taken == [t \in DOMAIN s.threads |->
                     IF t \in completed
                     THEN [s.threads[t] EXCEPT !.channel = <<>>, !.received = TRUE]
                     ELSE s.threads[t]]
        left == SelectSeq(s.metadata_receivers, LAMBDA t : t \notin completed)
    IN  IF s.metadata_cancel_flag
        THEN [s EXCEPT !.metadata_receivers = <<>>, !.pending_metadata = <<>>]
        ELSE IF remaining_receivers = 0 /\ pending # <<>>
        THEN [s EXCEPT !.threads = taken, !.metadata_receivers = left,
                       !.image_slots = pending, !.pending_metadata = <<>>,
                       !.started = Append(s.started, [load |-> s.loads, records |-> pending])]
        ELSE [s EXCEPT !.threads = taken, !.metadata_receivers = left,
                       !.pending_metadata = pending]

InitMetadata ==
    /\ disk = DiskWith(<<>>)
    /\ PipelineIdle
    /\ glb = GlbIdle
    /\ par = [pc |-> "idle"]
    /\ dec = [pc |-> "idle"]
    /\ FbxIdle
    /\ loader = [pc |-> "idle"]
    /\ app = [pc |-> "idle"]
    /\ probe = [pc |-> "idle"]
    /\ \E initial_file_path \in BOOLEAN :
          md = [main |-> "frame", initial_file_path |-> initial_file_path,
                metadata_cancel_flag |-> FALSE, metadata_receivers |-> <<>>,
                pending_metadata |-> <<>>, image_slots |-> <<>>, threads |-> <<>>,
                loads |-> 0, cancels |-> 0, drops |-> 0, dropped |-> 0,
                started |-> <<>>]

\* The frame's check_metadata_results.
MetadataTick ==
    /\ md.main = "frame"
    /\ md' = check_metadata_results(md)
    /\ md' # md
    /\ UNCHANGED <<disk, pipelineVars, glb, par, dec, loader, app, fbx, probe>>

\* load_initial_file_if_needed: the path given on the command line.
LoadInitialFile ==
    /\ md.main = "frame"
    /\ md.initial_file_path
    /\ \E yield \in BOOLEAN :
          md' = load_images([md EXCEPT !.initial_file_path = FALSE], 1, <<yield>>)
    /\ UNCHANGED <<disk, pipelineVars, glb, par, dec, loader, app, fbx, probe>>

\* handle_file_drops with n image files dropped, up to its call of
\* cancel_all_loading; the frame has called load_initial_file_if_needed
\* before.
DropCancel ==
    /\ md.main = "frame"
    /\ ~md.initial_file_path
    /\ md.drops < MaxDrops
    /\ \E n \in 1..MaxDropped :
          md' = [cancel_all_loading(md) EXCEPT !.main = "dropped", !.dropped = n,
                                               !.drops = md.drops + 1]
    /\ UNCHANGED <<disk, pipelineVars, glb, par, dec, loader, app, fbx, probe>>

\* handle_file_drops from its call of load_images on.
DropLoad ==
    /\ md.main = "dropped"
    /\ \E yields \in [1..Batches(md.dropped) -> BOOLEAN] :
          md' = [load_images(md, md.dropped, yields) EXCEPT !.main = "frame", !.dropped = 0]
    /\ UNCHANGED <<disk, pipelineVars, glb, par, dec, loader, app, fbx, probe>>

\* A thread reads the flag, before or after its extraction.
ThreadCheck(t) ==
    /\ md.threads[t].pc \in {"spawned", "extracted"}
    /\ md' = [md EXCEPT !.threads[t].pc =
                 IF md.metadata_cancel_flag THEN "done"
                 ELSE IF md.threads[t].pc = "spawned" THEN "extracted" ELSE "sending"]
    /\ UNCHANGED <<disk, pipelineVars, glb, par, dec, loader, app, fbx, probe>>

\* A thread sends its one message; it is lost when the receiver is dropped.
\* sent_after notes how many cancel_all_loading calls came before the send.
ThreadSend(t) ==
    /\ md.threads[t].pc = "sending"
    /\ md' = [md EXCEPT
                !.threads[t].pc = "done",
                !.threads[t].sent_after = md.cancels,
                !.threads[t].channel =
                    IF \E i \in DOMAIN md.metadata_receivers : md.metadata_receivers[i] = t
                    THEN <<md.threads[t].batch_results>> ELSE <<>>]
    /\ UNCHANGED <<disk, pipelineVars, glb, par, dec, loader, app, fbx, probe>>

ThreadStep == \E t \in DOMAIN md.threads : ThreadCheck(t) \/ ThreadSend(t)

NextMetadata == MetadataTick \/ LoadInitialFile \/ DropCancel \/ DropLoad \/ ThreadStep

SpecMetadata == InitMetadata /\ [][NextMetadata]_vars

\* --------------------------- find_source_for_reader, one Source at a time
\* The cursor over the header bytes of a record, handed to each Source's
\* can_load_reader in registration order until one accepts.
ProbeBlobs ==
    {NestedGlb, Zip(<<>>), Zip(<<ZipEntry(FALSE, TRUE, PngBig)>>), PngBig, JunkBlob,
     Junk(300, "glTF"), Junk(300, "PK34"), Glb(FALSE, 200, 0, <<>>, <<>>)}

InitProbe ==
    /\ disk = DiskWith(<<>>)
    /\ PipelineIdle
    /\ glb = GlbIdle
    /\ par = [pc |-> "idle"]
    /\ dec = [pc |-> "idle"]
    /\ FbxIdle
    /\ loader = [pc |-> "idle"]
    /\ app = [pc |-> "idle"]
    /\ md = [pc |-> "idle"]
    /\ \E blob \in ProbeBlobs, len \in {0, 2, 4, 8, InitialHeaderSize} :
          probe = [pc |-> "find", header |-> Bytes(blob, Min(len, blob.size)), i |-> 1,
                   pos |-> 0, entry |-> 0, result |-> None]

\* The closure of find for Source i: can_load_reader(reader).unwrap_or(false).
ProbeSource ==
    /\ probe.pc = "find"
    /\ probe.i <= Len(Sources)
    /\ LET r == can_load_reader(Sources[probe.i], probe.header, probe.pos)
       IN  probe' = [probe EXCEPT
                       !.entry = probe.pos, !.pos = r.pos,
                       !.i = probe.i + 1,
                       !.pc = IF unwrap_or_false(r.res) THEN "found" ELSE "find",
                       !.result = IF unwrap_or_false(r.res)
                                  THEN Some(Sources[probe.i]) ELSE None]
    /\ UNCHANGED <<disk, pipelineVars, glb, par, dec, loader, app, fbx, md>>

\* No Source accepted.
ProbeNone ==
    /\ probe.pc = "find"
    /\ probe.i > Len(Sources)
    /\ probe' = [probe EXCEPT !.pc = "none"]
    /\ UNCHANGED <<disk, pipelineVars, glb, par, dec, loader, app, fbx, md>>

NextProbe == ProbeSource \/ ProbeNone

SpecProbe == InitProbe /\ [][NextProbe]_vars

\* =================================================================== claims
Returned == pc \in {"done", "loaded"}

\* The type probe recognises the whole content as an image.
IsImage(blob) == image_type(blob, blob.size).ok

\* The content is an image with positive dimensions.
IsValidImage(blob) ==
    /\ blob_size(blob, blob.size).ok
    /\ blob_size(blob, blob.size).val.width > 0
    /\ blob_size(blob, blob.size).val.height > 0

\* The contents of the texture entries of the container at path: the
\* non-empty readable files of a ZIP, the embedded contents of an FBX, the
\* images of a glTF document.
TextureEntries(path) ==
    LET blob == disk[path]
        files == SelectSeq(blob.entries,
                           LAMBDA e : ~e.is_dir /\ e.readable /\ e.blob.size > 0)
        embedded == SelectSeq(blob.textures, LAMBDA t : t.content.some)
    IN  CASE blob.kind = "zip" -> [i \in DOMAIN files |-> files[i].blob]
          [] blob.kind = "fbx" -> [i \in DOMAIN embedded |-> embedded[i].content.val]
          [] blob.kind = "glb" ->
               [i \in DOMAIN blob.textures |->
                   IF blob.textures[i].src = "view" THEN blob.textures[i].image
                   ELSE disk[blob.textures[i].uri]]
          [] OTHER -> <<>>

\* A path-based extract_metadata call of a container Source on a container
\* of its own kind.
ContainerExtraction ==
    /\ lastExtract.via = "path"
    /\ \/ lastExtract.source = "Zip" /\ disk[lastExtract.path].kind = "zip"
       \/ lastExtract.source = "Fbx" /\ disk[lastExtract.path].kind = "fbx"
       \/ lastExtract.source = "Glb" /\ disk[lastExtract.path].kind = "glb"

\* extract_all_metadata_recursive has returned from a call on pack.zip alone.
RecursiveOnZip == Returned /\ call = "recursive" /\ paths = <<PackZip>>

\* C1 (as stated): for distinct Sources A and B and every hint that A's
\* extraction produced, B.load_bytes(hint) returns the type-mismatch error
\* and no bytes.
C1_CrossSourceAlwaysMismatch ==
    (lastLoad.via = "Source" /\ lastLoad.producer # lastLoad.source)
        => lastLoad.result = Err("TypeMismatch")

\* C1 (amended): for distinct Sources A and B and every hint that A's
\* extraction produced, B.load_bytes(hint) returns the type-mismatch error
\* and no bytes, except that ImageSource and GlbSource, which both create
\* and both accept FileHints, read the file a FileHint names whichever of
\* the two created it.
C1_CrossSourceMismatch ==
    (lastLoad.via = "Source" /\ lastLoad.producer # lastLoad.source)
        => IF lastLoad.hint.type = "FileHint"
              /\ lastLoad.source \in {"Image", "Glb"}
           THEN lastLoad.result = fs_read(lastLoad.hint.path)
           ELSE lastLoad.result = Err("TypeMismatch")

\* A ZipHint made by ZipSource was handed to ImageSource and refused.
C1_Witness ==
    /\ lastLoad.via = "Source"
    /\ lastLoad.producer = "Zip"
    /\ lastLoad.source = "Image"
    /\ lastLoad.hint.type = "ZipHint"
    /\ lastLoad.result = Err("TypeMismatch")

\* C2: after the extraction of a container, no load_bytes call on a record
\* it produced opens and parses the container again.
C2_NoReparseOnLoad ==
    (lastLoad.via \in {"Pipeline", "Source"}) => lastLoad.parsed = {}

\* C3: when a container holds at least one valid texture entry and one
\* entry whose content is not recognised as an image, extract_metadata
\* succeeds with one record per valid entry.
C3_MalformedEntrySkipped ==
    LET entries == TextureEntries(lastExtract.path)
    IN  (/\ ContainerExtraction
         /\ \E i \in DOMAIN entries : IsValidImage(entries[i])
         /\ \E i \in DOMAIN entries : ~IsImage(entries[i]))
            => /\ lastExtract.result.ok
               /\ Len(lastExtract.result.val)
                      = Cardinality({i \in DOMAIN entries : IsValidImage(entries[i])})

\* C4: extract_metadata on a well-formed container with no extractable
\* texture (a ZIP with no entry other than directories and zero-size files,
\* a glTF document with no texture, an FBX with no embedded content)
\* returns a successful empty list.
C4_EmptyContainerIsSuccess ==
    (/\ ContainerExtraction
     /\ TextureEntries(lastExtract.path) = <<>>
     /\ disk[lastExtract.path].kind = "zip"
            => \A i \in DOMAIN disk[lastExtract.path].entries :
                   disk[lastExtract.path].entries[i].readable)
        => lastExtract.result = Ok(<<>>)

\* C5: for a ZIP whose entries are N images, of any nonzero size, and M
\* files that are neither images nor containers,
\* extract_all_metadata_recursive returns exactly N records, one per image
\* entry.
C5_OneRecordPerImageEntry ==
    LET entries == disk[PackZip].entries
        images == {i \in DOMAIN entries : IsImage(entries[i].blob)}
    IN  (/\ RecursiveOnZip
         /\ \A i \in DOMAIN entries :
               /\ ~entries[i].is_dir /\ entries[i].readable
               /\ entries[i].blob.size > 0
               /\ \/ IsImage(entries[i].blob)
                  \/ ~find_source_for_reader(
                          Bytes(entries[i].blob, entries[i].blob.size)).some)
            => /\ Len(final_metadata) = Cardinality(images)
               /\ \A i \in images :
                     \E k \in DOMAIN final_metadata :
                         final_metadata[k].name = entry_name(i - 1)

\* The number of PNG images embedded in a glTF document.
EmbeddedPngs(doc) ==
    Cardinality({t \in DOMAIN doc.textures :
                    /\ doc.textures[t].src = "view"
                    /\ doc.textures[t].image.kind = "img"
                    /\ doc.textures[t].image.fmt = "Png"})

RECURSIVE EmbeddedPngsFrom(_, _)
EmbeddedPngsFrom(entries, i) ==
    IF i > Len(entries) THEN 0
    ELSE EmbeddedPngs(entries[i].blob) + EmbeddedPngsFrom(entries, i + 1)

\* C6: for a ZIP that holds GLB files with embedded PNG textures the queue
\* loop of extract_all_metadata_recursive drains and the result holds one
\* record per embedded PNG.
C6_OneRecordPerEmbeddedPng ==
    LET entries == disk[PackZip].entries
    IN  (/\ RecursiveOnZip
         /\ entries # <<>>
         /\ \A i \in DOMAIN entries :
               /\ ~entries[i].is_dir /\ entries[i].readable
               /\ entries[i].blob.kind = "glb" /\ entries[i].blob.binary)
            => /\ processing_queue = <<>>
               /\ Len(final_metadata) = EmbeddedPngsFrom(entries, 1)

\* C7: every record in the list extract_all_metadata_recursive returns has
\* width > 0 and height > 0.
C7_ReturnedDimensionsPositive ==
    (Returned /\ call = "recursive")
        => \A k \in DOMAIN final_metadata :
               final_metadata[k].width > 0 /\ final_metadata[k].height > 0

\* C8: Pipeline::load_bytes on a record of the pipeline's own extraction
\* never ends in a hint/Source type mismatch.
C8_NoMismatchInPipelineLoad ==
    (lastLoad.via = "Pipeline") => lastLoad.result # Err("TypeMismatch")

\* The records of a finished GlbSource::extract_metadata that describe
\* texture t (0-based) of the document: those whose hint carries the
\* texture's buffer-view offset.
GlbRecordsOf(t) ==
    {k \in DOMAIN Records(glb.result) :
        glb.result.val[k].embedded_hint.relative_buffer_offset
            = disk[glb.path].textures[t + 1].offset}

\* Texture t holds an image whose type and positive dimensions the probe finds.
GlbValidTexture(t) ==
    extract_texture_metadata_from_texture(
        disk[glb.path].textures[t + 1], "probe", glb.path, 0).ok

\* C9: GlbSource::extract_metadata emits at most one record per texture
\* index: a valid texture referenced by one or several material slots
\* yields exactly one record, which is not a Standalone record; every valid
\* texture referenced by no material yields exactly one Standalone record;
\* the list holds no other record.
C9_OneRecordPerTexture ==
    (glb.pc \in {"done", "loaded"})
        => LET textures == disk[glb.path].textures
               valid == {t \in 0..(Len(textures) - 1) : GlbValidTexture(t)}
           IN  /\ \A t \in 0..(Len(textures) - 1) :
                     Cardinality(GlbRecordsOf(t)) = IF t \in valid THEN 1 ELSE 0
               /\ Len(Records(glb.result)) = Cardinality(valid)
               /\ \A t \in valid : \A k \in GlbRecordsOf(t) :
                     (glb.result.val[k].name = "Standalone - " \o textures[t + 1].name)
                         <=> t \notin glb.referenced

\* A texture was referenced a second time after its record was made, another
\* valid texture was referenced by no material, and both have their record.
C9_Witness ==
    /\ glb.pc = "done"
    /\ glb.repeated
    /\ glb.result.ok
    /\ \E t \in 0..(Len(disk[glb.path].textures) - 1) :
          t \notin glb.referenced /\ GlbValidTexture(t)
    /\ Len(glb.result.val) >= 2

\* C10: for every file GlbSource accepts as a GLB, whatever the letter case
\* of its extension, the absolute_file_offset of each embedded-image record
\* is 12 + 8 + (JSON chunk length rounded up to a multiple of 4) + 8 +
\* buffer-view offset, and load_bytes on the hint returns the bytes of that
\* buffer view.
C10_AbsoluteOffset ==
    LET doc == disk[glb.path]
    IN  /\ (glb.pc \in {"done", "loaded"})
               => \A k \in DOMAIN Records(glb.result) :
                      LET hint == glb.result.val[k].embedded_hint
                      IN  hint.absolute_file_offset
                             = GlbHeaderLen + ChunkHeaderLen + Pad4(doc.jsonLen)
                               + ChunkHeaderLen + hint.relative_buffer_offset
        /\ (glb.pc = "loaded")
               => lastLoad.result
                     = Ok(Slice(doc, BinStart(doc) + lastLoad.hint.relative_buffer_offset,
                                lastLoad.hint.length))

\* The embedded textures an extraction returned records for: each by its
\* buffer-view offset, with the format, dimensions and byte length recorded.
GlbTextureSet(result) ==
    {[offset |-> Records(result)[k].embedded_hint.relative_buffer_offset,
      format |-> Records(result)[k].format,
      width |-> Records(result)[k].width,
      height |-> Records(result)[k].height,
      file_size |-> Records(result)[k].file_size] : k \in DOMAIN Records(result)}

\* C11: over the same GLB bytes, GlbSource::extract_metadata_from_reader
\* returns records for exactly the embedded textures GlbSource::extract_metadata
\* returns records for, referenced by a material or not, each with the same
\* format, width, height and byte length.
C11_ReaderMatchesFile ==
    (glb.pc \in {"done", "loaded"})
        => GlbTextureSet(glb.reader_result) = GlbTextureSet(glb.result)

\* Source `source` accepts `path`.
Accepts(source, path) == unwrap_or_false(can_load_path(source, path))

\* The position of `source` in the registration order GLB, FBX, ZIP, Image.
Position(source) == CHOOSE i \in DOMAIN Sources : Sources[i] = source

\* C12: a path that several Sources accept is handled by the earliest of
\* them in the order GLB, FBX, ZIP, Image, in the sequential find_source and
\* in extract_all_metadata_parallel alike: no accepting Source stands before
\* the Source that extracted the path.
C12_EarliestAcceptorHandles ==
    (lastExtract.via = "path")
        => \A i \in DOMAIN Sources :
               Accepts(Sources[i], lastExtract.path)
                   => Position(lastExtract.source) <= i

\* C14: a path that cannot be opened ends every Source's acceptance test as
\* "cannot load" without an error, so no Source accepts it and no Source is
\* made to extract it.
C14_UnopenableNotAccepted ==
    \A k \in DOMAIN paths :
        (disk[paths[k]].kind = "missing")
            => /\ \A i \in DOMAIN Sources :
                      can_load_path(Sources[i], paths[k]) = Ok(FALSE)
               /\ ~(lastExtract.via = "path" /\ lastExtract.path = paths[k])

\* The records closure i and its successors owe to the combined list: those
\* of each path that some Source accepts and whose extraction, by the Source
\* that took the path, succeeds.
RECURSIVE ParallelOwedFrom(_)
ParallelOwedFrom(i) ==
    IF i > Len(par.paths) THEN <<>>
    ELSE LET path == par.paths[i]
             accepted == \E s \in DOMAIN Sources : Accepts(Sources[s], path)
         IN  (IF ~accepted THEN <<>>
              ELSE IF ~extract_metadata(par.source[i], path).ok THEN <<>>
              ELSE extract_metadata(par.source[i], path).val)
             \o ParallelOwedFrom(i + 1)

AcceptingParsers == {k \in DOMAIN Parsers : can_parse(Parsers[k], dec.data)}

\* C15: parse_image_data hands the data to the first decoder, in the order
\* Standard, KTX2, Compressed, whose can_parse accepts its format, calls no
\* other decoder and returns that decoder's result; when no decoder accepts
\* the format it calls none and returns an error that names the format.
C15_FirstAcceptingDecoder ==
    (dec.pc = "done")
        => IF AcceptingParsers = {}
           THEN /\ dec.called = {}
                /\ dec.result
                     = DecodeError("No parser found for image format: " \o dec.data.format)
           ELSE \E k \in AcceptingParsers :
                   /\ \A j \in AcceptingParsers : k <= j
                   /\ dec.called = {Parsers[k]}
                   /\ dec.result = parse(Parsers[k], dec.data)

\* A format without decoder has been answered with the error.
C15_Witness ==
    /\ dec.pc = "done"
    /\ dec.data.format = "Psd"
    /\ dec.called = {}
    /\ dec.result.kind = "err"

\* C16: CompressedFormat::parse ends with a decoded image or an error value
\* on every input the decoder accepts: a panic inside decompress_texture
\* comes back as an error.
C16_PanicBecomesError ==
    (dec.pc = "done" /\ dec.called = {"Compressed"})
        => dec.result.kind \in {"ok", "err"}

\* The decoding library panicked on data of valid dimensions, and parse
\* returned the error.
C16_Witness ==
    /\ dec.pc = "done"
    /\ dec.called = {"Compressed"}
    /\ decompress_texture(dec.data).kind = "panic"
    /\ dec.result.kind = "err"

\* C17: every image that decodes comes back with the width and height
\* detection reported, in the Image and in the ImageInfo, and with a pixel
\* buffer of exactly 4 * width * height bytes.
C17_DecodedDimensions ==
    (dec.pc = "done" /\ dec.result.kind = "ok")
        => /\ dec.result.image.width = dec.data.width
           /\ dec.result.image.height = dec.data.height
           /\ dec.result.info.width = dec.data.width
           /\ dec.result.info.height = dec.data.height
           /\ dec.result.image.bytes = 4 * dec.data.width * dec.data.height

\* C18: once cancel_all has been called, no result of a batch started before
\* the call is in the completed-results map or has been returned by update.
C18_NoStaleResultAfterCancel ==
    \A entry \in loader.completed_images \cup loader.returned :
        entry.batch > loader.cancelled

\* C19: in a session that is never cancelled, with the tasks and the frames
\* scheduled fairly, every record handed to start_loading_batch has its
\* placeholder replaced by the loaded image or removed as failed, and
\* is_loading becomes false.
C19_SessionResolves ==
    <>(/\ ~app.is_loading
       /\ \A i \in DOMAIN app.image_slots : app.image_slots[i].state # "Placeholder")

\* C20: on an FBX file that is a valid header followed at once by the
\* null-node marker, of any version and any length, extract_textures returns
\* the empty list, without error and without arithmetic fault.
C20_NullNodeFileGivesEmptyList ==
    (fbx.pc = "done") => fbx.result = Ok(<<>>)


\* A read of a node record is about to fail: the walk is in one of its three
\* loops, the loop goes on, and read_fbx_node returns an error.
NodeReadFails ==
    /\ fbx.pc \in {"loop", "objects", "texture"}
    /\ CASE fbx.pc = "loop" -> ~near_end(fbx.pos, fbx.file_size)
         [] fbx.pc = "objects" -> fbx.pos < fbx.objects_end
         [] fbx.pc = "texture" -> fbx.pos < fbx.texture_end
    /\ read_fbx_node(fbx.at, fbx.file_size, fbx.pos).res = "err"

\* C21: extract_textures terminates on every file: the walk over the nodes
\* of every file, top level and nested, comes to its end.
C21_WalkTerminates == <>(fbx.pc = "done")

\* C22: a node header whose name, property block or end-offset does not fit
\* the file is rejected with an error before any name or property byte is
\* allocated or read.
C22_UnfitHeaderRejectedFirst ==
    LET h == HeaderAt(fbx.at, fbx.read_at)
    IN  (/\ fbx.read_at > 0
         /\ \/ fbx.read_at + 13 + h.name_len > fbx.file_size
            \/ h.property_list_len > fbx.file_size
            \/ h.end_offset > fbx.file_size)
        => fbx.last = "err" /\ fbx.allocated = 0

\* C23: a node record that fails to parse, at top level or nested, leaves
\* the result an Ok and every texture found so far in it (the texture under
\* construction included); at top level the walk goes on 100 bytes past the
\* start of the failing node when that is inside the file and ends otherwise.
C23_NodeErrorIsContained ==
    [][NodeReadFails =>
        /\ fbx'.result.ok \/ fbx'.pc # "done"
        /\ fbx'.pc = "done" => fbx'.result = Ok(fbx'.textures)
        /\ Len(fbx'.textures) >= Len(fbx.textures)
        /\ SubSeq(fbx'.textures, 1, Len(fbx.textures)) = fbx.textures
        /\ (/\ fbx.pc = "texture"
            /\ fbx.texture_data.content.some \/ fbx.texture_data.relative_filename.some)
           => fbx'.textures = Append(fbx.textures, fbx.texture_data)
        /\ (fbx.pc = "loop" /\ fbx.pos + SkipAhead < fbx.file_size)
           => fbx'.pc = "loop" /\ fbx'.pos = fbx.pos + SkipAhead
        /\ (fbx.pc = "loop" /\ fbx.pos + SkipAhead >= fbx.file_size)
           => fbx'.pc = "done"]_vars

\* A top-level node failed after a texture was found, and the walk went on.
C23_Witness ==
    /\ fbx.pc = "loop"
    /\ fbx.last = "err"
    /\ fbx.textures # <<>>
    /\ fbx.pos = fbx.read_at + SkipAhead

\* The names of a list are pairwise distinct.
DistinctNames(results) ==
    \A i, j \in DOMAIN results : results[i].name = results[j].name => i = j

\* How many records before the i-th carry the i-th record's name.
Repeat(results, i) == Cardinality({j \in 1..(i - 1) : results[j].name = results[i].name})

HeaderWindow(blob) ==
    LET cap == Min(HeaderCap, blob.size)
        windows == {Min(InitialHeaderSize + k * HeaderGrowth, cap) : k \in 0..64}
        hits == {w \in windows : blob_size(blob, w).ok}
    IN  IF hits = {} THEN cap ELSE CHOOSE w \in hits : \A v \in hits : w <= v

\* C25: the hint of every record ZipSource makes for a non-directory entry
\* of nonzero size holds the first L bytes of the entry, L the entry's
\* header window; it is never empty.
C25_HeaderIsTheWindow ==
    (ContainerExtraction /\ lastExtract.source = "Zip" /\ lastExtract.result.ok)
    => \A k \in DOMAIN lastExtract.result.val :
          LET hint == lastExtract.result.val[k].embedded_hint
              blob == disk[lastExtract.path].entries[hint.entry_index + 1].blob
          IN  /\ hint.header_bytes = Some(Bytes(blob, HeaderWindow(blob)))
              /\ hint.header_bytes.val.len > 0

\* C26: the bytes decoded from an uncompressed DDS payload are in R,G,B,A
\* order: an Rgba32 payload of w*h*4 bytes comes back unchanged, an Rgb24
\* payload of w*h*3 bytes comes back pixel by pixel as R,G,B,255.
C26_DdsPayloadStaysRgba ==
    LET n == dec.width * dec.height
    IN  /\ (dec.pc = "bytes" /\ dec.compression = "Rgba32" /\ Len(dec.data) = 4 * n)
           => dec.result = Ok(dec.data)
        /\ (dec.pc = "bytes" /\ dec.compression = "Rgb24" /\ Len(dec.data) = 3 * n)
           => /\ dec.result.ok
              /\ Len(dec.result.val) = 4 * n
              /\ \A i \in 1..n :
                    SubSeq(dec.result.val, 4 * i - 3, 4 * i)
                        = SubSeq(dec.data, 3 * i - 2, 3 * i) \o <<255>>

\* The records waiting in pending_metadata or shown in image_slots.
HeldRecords == {md.pending_metadata[i] : i \in DOMAIN md.pending_metadata} \cup {md.image_slots[i] : i \in DOMAIN md.image_slots}

\* The threads load_images call number n spawned.
ThreadsOf(n) == {t \in DOMAIN md.threads : md.threads[t].load = n}

\* C27: no record computed by a thread that was spawned before a call of
\* cancel_all_loading is in pending_metadata or in image_slots after it.
C27_NoMetadataFromBeforeCancel ==
    \A r \in HeldRecords :
       \A t \in ThreadsOf(r.load) : md.threads[t].cancels = md.cancels

\* A thread spawned before a cancel passed both flag tests and sent after
\* load_images had reset the flag, and nothing of it is held.
C27_Witness ==
    /\ md.main = "frame"
    /\ ~md.metadata_cancel_flag
    /\ \E t \in DOMAIN md.threads :
          /\ md.threads[t].cancels < md.threads[t].sent_after
          /\ md.threads[t].batch_results # <<>>
          /\ ~md.threads[t].received
    /\ md.image_slots # <<>>

\* C28: start_loading_batch is called at most once per load session, when
\* every receiver of the session has delivered, with the records of all the
\* session's batches; the placeholders are those records, made then.
C28_OneStartWithAllRecords ==
    /\ \A i, j \in DOMAIN md.started : md.started[i].load = md.started[j].load => i = j
    /\ \A i \in DOMAIN md.started :
          LET e == md.started[i]
          IN  /\ \A t \in ThreadsOf(e.load) : md.threads[t].received
              /\ {e.records[k] : k \in DOMAIN e.records}
                     = UNION {{md.threads[t].batch_results[k] :
                                   k \in DOMAIN md.threads[t].batch_results} :
                              t \in ThreadsOf(e.load)}
              /\ Len(e.records) = Cardinality({e.records[k] : k \in DOMAIN e.records})
    /\ md.image_slots # <<>>
          => \E i \in DOMAIN md.started :
                md.started[i] = [load |-> md.loads, records |-> md.image_slots]

\* A session of two batches whose messages arrived in different ticks has
\* started its one loading batch.
C28_Witness ==
    \E i \in DOMAIN md.started :
       /\ Len(md.started[i].records) = 2
       /\ md.started[i].records[1].batch = 2

\* C29: a Source's can_load_reader leaves the reader where it found it, so
\* every Source is tested against the stream from its first byte.
C29_ReaderPositionKept ==
    (probe.pc # "idle" /\ probe.i > 1) => (probe.pos = probe.entry /\ probe.entry = 0)

\* C30: the records an expansion pushes onto the queue expose no header
\* bytes, and a record without header bytes is emitted as it is and pushes
\* nothing: one turn of the loop per initial record and one per child.
C30_ChildrenAreFinal ==
    [][(pc \in {"seed", "loop"} /\ processing_queue # <<>> /\ pc' = "loop") =>
        LET meta == Head(processing_queue)
            children == SubSeq(processing_queue', Len(processing_queue),
                               Len(processing_queue'))
        IN  /\ Len(processing_queue') >= Len(processing_queue) - 1
            /\ \A k \in DOMAIN children :
                  ~header_bytes(children[k].embedded_hint).some
            /\ ~header_bytes(meta.embedded_hint).some
                  => /\ final_metadata' = Append(final_metadata, meta)
                     /\ children = <<>>]_vars

\* The textures of a GLB held in pack.zip were queued and came out.
C30_Witness ==
    /\ RecursiveOnZip
    /\ \E k \in DOMAIN final_metadata : final_metadata[k].embedded_hint.type = "GlbHint"

=============================================================================
